---- MODULE Spec2Model ----
(***************************************************************************)
(* Model of the cotton-api server (src/unnamed/part_000): the handler of   *)
(* GET /api/cotton-mixing-summary and the helpers it uses, and the handler *)
(* of POST /api/mixing-issues.                                             *)
(*                                                                         *)
(* Conventions of the model                                                *)
(*  - a JavaScript string is a sequence of one-character strings; the      *)
(*    string-typed null is the one-element sequence NullS;                 *)
(*  - a JavaScript number is an integer; NullN stands for null/undefined   *)
(*    and NaN for a value Number() cannot convert;                         *)
(*  - quality metrics are kept in hundredths (4.33 is 433), so toFixed(2)  *)
(*    is a rounding to the nearest integer, halves up; arithmetic is exact *)
(*    (binary floating point error is not modelled);                       *)
(*  - a date string is a record [k, y, m, d]: k = "ok" a YYYY-MM-DD date,  *)
(*    "month" a YYYY-MM label, "week" a YYYY-MM-W<d> label, "bad" a string *)
(*    Date cannot parse, "null" no value;                                  *)
(*  - a JavaScript object used as a map is a sequence of <<key, value>>    *)
(*    pairs in insertion order.                                            *)
(***************************************************************************)
EXTENDS Integers, Sequences, FiniteSets, TLC

VARIABLES
    db,              \* the record source: mixing_issue, mixing_chart, lot_results, mixing_code
    req,             \* req.query of the request being served
    pc,              \* position of the handler
    flt,             \* unitFilters, lineFilters, cottonFilters, mixingFilters
    issueData,       \* issueData (after the cotton filter)
    mixingData,      \* mixingData
    lotResults,      \* lotResults
    groups,          \* daily: Object.values(groups); weekly/monthly: Object.entries(groupedData)
    gi,              \* index of the next group the aggregation loop handles
    summaryEntries,  \* summaryEntries / summaryEntriesPeriod
    fetchLog,        \* the reads issued to the record source, in order
    failed,          \* the reads that returned an error
    status,          \* HTTP status of the response, 0 while none was sent
    body,            \* the summary sent with status 200
    run,             \* number of the request being served
    firstBody,       \* the response of the first request, kept by the observer
    waiting,         \* the locals of a second request in flight while this one runs
    post             \* the locals of a POST /api/mixing-issues request in flight

vars == << db, req, pc, flt, issueData, mixingData, lotResults, groups, gi,
           summaryEntries, fetchLog, failed, status, body, run, firstBody, waiting, post >>

-----------------------------------------------------------------------------
(* Values *)

NullN == 0 - 1
NaN == 0 - 2
NullS == << "<null>" >>
Absent == << "<undefined>" >>

IsNum(x) == x >= 0

NullDate == [k |-> "null", y |-> 0, m |-> 0, d |-> 0]
BadDate == [k |-> "bad", y |-> 0, m |-> 0, d |-> 0]
Day(y, m, d) == [k |-> "ok", y |-> y, m |-> m, d |-> d]

RECURSIVE SeqSum(_)
SeqSum(s) == IF s = << >> THEN 0 ELSE Head(s) + SeqSum(Tail(s))

Range(s) == { s[i] : i \in 1..Len(s) }

\* [...new Set(s)]: the first occurrence of every value, in order
RECURSIVE Distinct(_)
Distinct(s) ==
    IF s = << >> THEN << >>
    ELSE LET r == Distinct(SubSeq(s, 1, Len(s) - 1))
             x == s[Len(s)]
         IN IF x \in Range(r) THEN r ELSE Append(r, x)

\* Array.prototype.sort with the comparator Before(a, b) <=> cmp(a, b) < 0:
\* a stable insertion sort (what the engine does for short arrays)
InsertSorted(x, s, Before(_, _)) ==
    LET stay == { j \in 1..Len(s) : ~Before(x, s[j]) }
        k == IF stay = {} THEN 0 ELSE CHOOSE j \in stay : \A i \in stay : i <= j
    IN SubSeq(s, 1, k) \o << x >> \o SubSeq(s, k + 1, Len(s))

StableSort(s, Before(_, _)) ==
    LET sorted[n \in 0..Len(s)] ==
            IF n = 0 THEN << >> ELSE InsertSorted(s[n], sorted[n - 1], Before)
    IN sorted[Len(s)]

\* Math.round(n / d) and (n / d).toFixed(0) for n >= 0, d > 0
RoundDiv(n, d) == (2 * n + d) \div (2 * d)

-----------------------------------------------------------------------------
(* Strings *)

DigitChars == << "0", "1", "2", "3", "4", "5", "6", "7", "8", "9" >>
IsDigit(c) == c \in Range(DigitChars)
DigitVal(c) == (CHOOSE i \in 1..10 : DigitChars[i] = c) - 1

\* the class [\s\-_\/] of parseCottonVersion
IsSep(c) == c \in { " ", "-", "_", "/" }

UpperChar(c) ==
    CASE c = "a" -> "A" [] c = "b" -> "B" [] c = "c" -> "C" [] c = "v" -> "V"
      [] OTHER -> c

ToUpper(s) == [i \in 1..Len(s) |-> UpperChar(s[i])]

RECURSIVE TrimLeft(_)
TrimLeft(s) == IF s # << >> /\ Head(s) = " " THEN TrimLeft(Tail(s)) ELSE s

RECURSIVE TrimRight(_)
TrimRight(s) ==
    IF s # << >> /\ s[Len(s)] = " " THEN TrimRight(SubSeq(s, 1, Len(s) - 1)) ELSE s

Trim(s) == TrimRight(TrimLeft(s))

\* `${n}` and String(n) of a non-negative integer
RECURSIVE NumStr(_)
NumStr(n) ==
    IF n < 10 THEN << DigitChars[n + 1] >>
    ELSE Append(NumStr(n \div 10), DigitChars[(n % 10) + 1])

\* parseInt(s, 10) of a non-empty string of digits
RECURSIVE ParseInt(_)
ParseInt(s) ==
    IF s = << >> THEN 0
    ELSE 10 * ParseInt(SubSeq(s, 1, Len(s) - 1)) + DigitVal(s[Len(s)])

AllDigits(s) == s # << >> /\ \A i \in 1..Len(s) : IsDigit(s[i])

\* `${x}` of a string-typed value: null renders as "null"
Show(x) ==
    IF x = NullS THEN << "n", "u", "l", "l" >>
    ELSE IF x = Absent THEN << "u", "n", "d", "e", "f", "i", "n", "e", "d" >>
    ELSE x

\* `${n}` of a number-typed value
ShowNum(n) ==
    IF n = NullN THEN << "n", "u", "l", "l" >>
    ELSE IF n = NaN THEN << "N", "a", "N" >>
    ELSE NumStr(n)

\* x ?? dflt
OrElse(x, dflt) == IF x = NullS \/ x = Absent THEN dflt ELSE x

\* a string is truthy unless null, undefined or empty
Truthy(x) == x # NullS /\ x # Absent /\ x # << >>

Bar == << "|" >>

RECURSIVE JoinWith(_, _)
JoinWith(parts, sep) ==
    IF parts = << >> THEN << >>
    ELSE IF Len(parts) = 1 THEN parts[1]
    ELSE parts[1] \o sep \o JoinWith(Tail(parts), sep)

\* rank of a character under localeCompare(..., { sensitivity: "base" })
CharRank(c) ==
    LET u == UpperChar(c)
    IN CASE u = " " -> 1 [] u = "_" -> 2 [] u = "-" -> 3 [] u = "/" -> 4
         [] u = "|" -> 5 [] u = "+" -> 6
         [] IsDigit(u) -> 10 + DigitVal(u)
         [] u = "A" -> 30 [] u = "B" -> 31 [] u = "C" -> 32 [] u = "D" -> 33
         [] u = "V" -> 50 [] u = "W" -> 51
         [] OTHER -> 60

\* a.localeCompare(b, undefined, { sensitivity: "base" }) < 0
RECURSIVE StrLess(_, _)
StrLess(a, b) ==
    IF b = << >> THEN FALSE
    ELSE IF a = << >> THEN TRUE
    ELSE IF CharRank(Head(a)) # CharRank(Head(b)) THEN CharRank(Head(a)) < CharRank(Head(b))
    ELSE StrLess(Tail(a), Tail(b))

-----------------------------------------------------------------------------
(* parseCottonVersion *)

NoVersion == [groupKey |-> << "_", "_", "N", "O", "_", "V", "E", "R", "S", "I", "O", "N", "_", "_" >>,
              versionNumber |-> NullN, raw |-> NullS]

\* /^(\d{2})_(\d{2})_V(\d+)$/
MatchesYYUL(t) ==
    /\ Len(t) >= 8
    /\ IsDigit(t[1]) /\ IsDigit(t[2]) /\ t[3] = "_"
    /\ IsDigit(t[4]) /\ IsDigit(t[5]) /\ t[6] = "_"
    /\ t[7] = "V"
    /\ AllDigits(SubSeq(t, 8, Len(t)))

\* the string from position i on matches [\s\-_\/]*(V\d+)$ , case-insensitive
MarkerAt(t, i) ==
    \E j \in i..Len(t) :
        /\ \A k \in i..(j - 1) : IsSep(t[k])
        /\ UpperChar(t[j]) = "V"
        /\ AllDigits(SubSeq(t, j + 1, Len(t)))

\* position of the V of the marker that starts at i
MarkerV(t, i) ==
    CHOOSE j \in i..Len(t) :
        /\ \A k \in i..(j - 1) : IsSep(t[k])
        /\ UpperChar(t[j]) = "V"
        /\ AllDigits(SubSeq(t, j + 1, Len(t)))

RECURSIVE StripSeps(_)
StripSeps(s) ==
    IF s # << >> /\ IsSep(s[Len(s)]) THEN StripSeps(SubSeq(s, 1, Len(s) - 1)) ELSE s

\* the marker read for the version only, the whole code kept as the key
MarkerVersionWholeCode(trimmed, i) ==
    [groupKey |-> trimmed,
     versionNumber |-> ParseInt(SubSeq(trimmed, MarkerV(trimmed, i) + 1, Len(trimmed))),
     raw |-> trimmed]

\* the match of /(.*?)(?:[\s\-_\/]*(V\d+))$/i whose marker starts at i; base is the
\* capture with its trailing separators removed, trimmed
MarkerVersion(trimmed, i) ==
    LET base == Trim(StripSeps(SubSeq(trimmed, 1, i - 1)))
        normalizedBase == IF base # << >> THEN base ELSE Trim(SubSeq(trimmed, 1, i - 1))
    IN [groupKey |-> IF normalizedBase # << >> THEN normalizedBase ELSE trimmed,
        versionNumber |-> ParseInt(SubSeq(trimmed, MarkerV(trimmed, i) + 1, Len(trimmed))),
        raw |-> trimmed]

\* parseCottonVersion after String(value).trim().toUpperCase()
VersionOfTrimmed(trimmed) ==
    IF trimmed = << >> THEN NoVersion
    ELSE IF MatchesYYUL(trimmed) THEN
        [groupKey |-> SubSeq(trimmed, 1, 5),
         versionNumber |-> ParseInt(SubSeq(trimmed, 8, Len(trimmed))),
         raw |-> trimmed]
    ELSE IF \E i \in 1..Len(trimmed) : MarkerAt(trimmed, i) THEN
        \* (.*?) is lazy: the marker starts at the leftmost position that matches
        MarkerVersion(trimmed, CHOOSE p \in 1..Len(trimmed) :
                                   MarkerAt(trimmed, p) /\ \A q \in 1..(p - 1) : ~MarkerAt(trimmed, q))
    ELSE [groupKey |-> trimmed, versionNumber |-> NullN, raw |-> trimmed]

\* parseCottonVersion: a falsy value has no version
parseCottonVersion(v) ==
    IF ~Truthy(v) THEN NoVersion ELSE VersionOfTrimmed(ToUpper(Trim(v)))

-----------------------------------------------------------------------------
(* Numbers as JavaScript computes them *)

\* Number(x || 0) of a stored quantity: null counts as 0, a non-numeric text is NaN
NumberOrZero(x) == IF x = NullN THEN 0 ELSE x

\* Number(x) || 0 : null, NaN and 0 all give 0
NumberElseZero(x) == IF IsNum(x) THEN x ELSE 0

NumAdd(a, b) == IF a = NaN \/ b = NaN THEN NaN ELSE a + b
NumMul(a, b) == IF a = NaN \/ b = NaN THEN NaN ELSE a * b

RECURSIVE NumSum(_)
NumSum(s) == IF s = << >> THEN 0 ELSE NumAdd(NumSum(SubSeq(s, 1, Len(s) - 1)), s[Len(s)])

RECURSIVE Gcd(_, _)
Gcd(a, b) == IF b = 0 THEN a ELSE Gcd(b, a % b)

\* exact fractions << numerator, denominator >> for the min-mic percentage
FracNorm(f) == LET g == Gcd(f[1], f[2]) IN IF g = 0 THEN f ELSE << f[1] \div g, f[2] \div g >>
FracAdd(f, g) == FracNorm(<< f[1] * g[2] + g[1] * f[2], f[2] * g[2] >>)

-----------------------------------------------------------------------------
(* Dates *)

\* new Date(x).getTime(), in days on a calendar of 31-day months; NaN when invalid.
\* A YYYY-MM label parses as the first day of the month, a YYYY-MM-W<n> label does not parse.
GetTime(x) ==
    CASE x.k = "ok" -> (x.y * 12 + (x.m - 1)) * 31 + x.d
      [] x.k = "month" -> (x.y * 12 + (x.m - 1)) * 31 + 1
      [] OTHER -> NaN

\* a date string is truthy unless null (no stored date is the empty string)
HasDate(x) == x.k # "null"

\* isValidIsoDate
isValidIsoDate(x) == HasDate(x) /\ GetTime(x) # NaN

-----------------------------------------------------------------------------
(* Request parsing *)

\* A query parameter is Absent or a text; the text is kept with what JSON.parse makes
\* of it: json = "array" (items), "scalar" (a JSON value that is no array) or "invalid"
\* (JSON.parse throws).
QText(json, items, text) == [json |-> json, items |-> items, text |-> text]
NoParam == QText("absent", << >>, << >>)

\* !value
ParamMissing(value) == value.json = "absent" \/ value.text = << >>

\* parseArray of the summary endpoint: only a JSON array gives filters
parseArray(value) ==
    IF ParamMissing(value) THEN << >>
    ELSE IF value.json = "array" THEN SelectSeq(value.items, Truthy)
    ELSE << >>

\* normalizeSingleValue / normalizeArray / parseCottonMixingFilterArray of the
\* filters endpoint: a text that is no JSON array is kept as one scalar
normalizeSingleValue(input) ==
    IF input = NullS \/ input = Absent THEN NullS
    ELSE IF Trim(input) = << >> THEN NullS ELSE Trim(input)

normalizeArray(items) ==
    LET mapped == [i \in 1..Len(items) |-> normalizeSingleValue(items[i])]
    IN Distinct(SelectSeq(mapped, LAMBDA x : x # NullS))

parseCottonMixingFilterArray(rawValue) ==
    IF rawValue.json = "absent" THEN << >>
    ELSE IF Trim(rawValue.text) = << >> THEN << >>
    ELSE IF rawValue.json = "array" THEN normalizeArray(rawValue.items)
    ELSE LET single == normalizeSingleValue(rawValue.text)
         IN IF single = NullS THEN << >> ELSE << single >>

ReportTypes == { "daily", "weekly", "monthly" }

\* the destructuring without its default
ReportTypeNoDefault(query) == query.report_type

\* const { ..., report_type = "daily" } = req.query
ReportTypeOf(query) == IF query.report_type = "<undefined>" THEN "daily" ELSE query.report_type

\* ["daily", "weekly", "monthly"].includes(report_type)
ReportTypeValid(rt) == rt \in ReportTypes

\* validateDateRange; "" when the range is accepted
validateDateRange(fromDate, toDate) ==
    IF ~HasDate(fromDate) /\ ~HasDate(toDate) THEN ""
    ELSE IF HasDate(fromDate) /\ ~isValidIsoDate(fromDate) THEN "from_date must be a valid ISO date"
    ELSE IF HasDate(toDate) /\ ~isValidIsoDate(toDate) THEN "to_date must be a valid ISO date"
    ELSE IF HasDate(fromDate) /\ HasDate(toDate) /\ GetTime(fromDate) > GetTime(toDate)
         THEN "from_date cannot be after to_date"
    ELSE ""

\* validateMixingRange; a bound is NullN when absent, NaN when its text is no number
validateMixingRange(mixingFrom, mixingTo) ==
    IF mixingFrom = NullN /\ mixingTo = NullN THEN ""
    ELSE IF mixingFrom = NaN THEN "mixing_from must be a number"
    ELSE IF mixingTo = NaN THEN "mixing_to must be a number"
    ELSE IF mixingFrom # NullN /\ mixingTo # NullN /\ mixingFrom > mixingTo
         THEN "mixing_from cannot be greater than mixing_to"
    ELSE ""

-----------------------------------------------------------------------------
(* Cotton filter normalisation of the summary endpoint *)

\* [A-Z0-9V_]
IsCottonChar(c) == IsDigit(c) \/ c = "_" \/ c \in { "A", "B", "C", "D", "V", "W" }

RECURSIVE CollapseUnderscores(_)
CollapseUnderscores(t) ==
    IF Len(t) < 2 THEN t
    ELSE IF t[1] = "_" /\ t[2] = "_" THEN CollapseUnderscores(Tail(t))
    ELSE << t[1] >> \o CollapseUnderscores(Tail(t))

\* sanitizeCottonCandidate: other characters become "_", runs of "_" collapse, one
\* leading and one trailing "_" are removed
sanitizeCottonCandidate(rawValue) ==
    IF ~Truthy(rawValue) THEN << >>
    ELSE LET replaced == [i \in 1..Len(rawValue) |->
                            IF IsCottonChar(rawValue[i]) THEN rawValue[i] ELSE "_"]
             collapsed == CollapseUnderscores(replaced)
             noHead == IF collapsed # << >> /\ Head(collapsed) = "_" THEN Tail(collapsed) ELSE collapsed
         IN IF noHead # << >> /\ noHead[Len(noHead)] = "_"
            THEN SubSeq(noHead, 1, Len(noHead) - 1) ELSE noHead

\* createCottonLookup: upper-cased trimmed code -> trimmed code, the last row wins
createCottonLookup(rows) ==
    LET usable == SelectSeq(rows, LAMBDA r : r.cotton # NullS /\ Trim(r.cotton) # << >>)
        keys == { ToUpper(Trim(usable[i].cotton)) : i \in 1..Len(usable) }
    IN [k \in keys |->
          LET last == CHOOSE i \in 1..Len(usable) :
                          /\ ToUpper(Trim(usable[i].cotton)) = k
                          /\ \A j \in (i + 1)..Len(usable) : ToUpper(Trim(usable[j].cotton)) # k
          IN Trim(usable[last].cotton)]

\* the value normalizeCottonFilterValue settles on: the lookup's entry for the first
\* candidate it knows (upper, sanitized, the parsed raw, the sanitized parsed raw),
\* else sanitized, else upper
NormalizeParsed(upper, sanitized, raw, sanitizedRaw, lookup) ==
    LET candidates ==
            << upper >>
            \o (IF sanitized # << >> /\ sanitized # upper THEN << sanitized >> ELSE << >>)
            \o (IF Truthy(raw)
                THEN << raw >> \o (IF sanitizedRaw # << >> THEN << sanitizedRaw >> ELSE << >>)
                ELSE << >>)
        hits == { i \in 1..Len(candidates) : ToUpper(candidates[i]) \in DOMAIN lookup }
    IN IF hits # {} THEN lookup[ToUpper(candidates[CHOOSE i \in hits : \A j \in hits : i <= j])]
       ELSE IF sanitized # << >> THEN sanitized
       ELSE upper

\* normalizeCottonFilterValue: null, undefined and blank values give ""
normalizeCottonFilterValue(value, lookup) ==
    IF value = NullS \/ value = Absent THEN << >>
    ELSE IF Trim(value) = << >> THEN << >>
    ELSE NormalizeParsed(ToUpper(Trim(value)),
                         sanitizeCottonCandidate(ToUpper(Trim(value))),
                         parseCottonVersion(Trim(value)).raw,
                         sanitizeCottonCandidate(parseCottonVersion(Trim(value)).raw),
                         lookup)

buildNormalizedCottonFilters(filters, lookup) ==
    LET mapped == [i \in 1..Len(filters) |-> Trim(normalizeCottonFilterValue(filters[i], lookup))]
    IN Distinct(SelectSeq(mapped, LAMBDA x : x # << >>))

\* cottonFilters.map(trim).filter(non-empty)
TrimmedFilters(filters) ==
    SelectSeq([i \in 1..Len(filters) |-> Trim(filters[i])], LAMBDA x : x # << >>)

\* effectiveCottonFilters (and cottonFiltersForQueries, computed the same way)
EffectiveCottonFilters(cottonFilters, rawIssueData) ==
    IF cottonFilters = << >> THEN << >>
    ELSE LET normalized == buildNormalizedCottonFilters(cottonFilters, createCottonLookup(rawIssueData))
         IN IF normalized # << >> THEN normalized ELSE TrimmedFilters(cottonFilters)

\* issueData: rawIssueData narrowed by the effective cotton filters, compared in
\* upper case
FilterIssuesByCotton(rawIssueData, effectiveCottonFilters) ==
    IF effectiveCottonFilters = << >> THEN rawIssueData
    ELSE SelectSeq(rawIssueData,
                   LAMBDA r : /\ r.cotton # NullS
                              /\ ToUpper(Trim(r.cotton)) \in
                                     { ToUpper(effectiveCottonFilters[i]) :
                                           i \in 1..Len(effectiveCottonFilters) })

-----------------------------------------------------------------------------
(* The record source *)

\* The store refuses a bound it cannot convert to the column's type.
StoreRejectsIssueQuery(query) ==
    \/ (HasDate(query.from_date) /\ ~isValidIsoDate(query.from_date))
    \/ (HasDate(query.to_date) /\ ~isValidIsoDate(query.to_date))
    \/ query.mixing_from = NaN
    \/ query.mixing_to = NaN

\* issueQuery: mixing_issue narrowed by the date range, the mixing range and the
\* unit, line and mixing filters
IssueQuery(table, query, f) ==
    SelectSeq(table, LAMBDA r :
        /\ HasDate(query.from_date) =>
               (isValidIsoDate(r.issue_date) /\ GetTime(r.issue_date) >= GetTime(query.from_date))
        /\ HasDate(query.to_date) =>
               (isValidIsoDate(r.issue_date) /\ GetTime(r.issue_date) <= GetTime(query.to_date))
        /\ query.mixing_from # NullN => (IsNum(r.mixing_no) /\ r.mixing_no >= query.mixing_from)
        /\ query.mixing_to # NullN => (IsNum(r.mixing_no) /\ r.mixing_no <= query.mixing_to)
        /\ f.unit # << >> => r.unit \in Range(f.unit)
        /\ f.line # << >> => r.line \in Range(f.line)
        /\ f.mixing # << >> => (IsNum(r.mixing_no) /\ NumStr(r.mixing_no) \in Range(f.mixing)))

\* validMixNos: the distinct truthy mixing numbers of issueData
ValidMixNos(issues) ==
    { issues[i].mixing_no : i \in { j \in 1..Len(issues) : issues[j].mixing_no > 0 } }

\* mixingQuery: mixing_chart narrowed by validMixNos and the unit, line and cotton filters
MixingQuery(table, issues, f, effCotton) ==
    SelectSeq(table, LAMBDA r :
        /\ ValidMixNos(issues) # {} => r.mixing_no \in ValidMixNos(issues)
        /\ f.unit # << >> => r.unit \in Range(f.unit)
        /\ f.line # << >> => r.line \in Range(f.line)
        /\ effCotton # << >> => r.cotton \in Range(effCotton))

\* lot_results with lot_no among the lot numbers of mixingData
LotQuery(table, mixing) ==
    SelectSeq(table, LAMBDA l : l.lot_no \in { mixing[i].lot_no : i \in 1..Len(mixing) })

\* mixing_code rows of the given varieties
MixingCodeQuery(table, varieties) ==
    SelectSeq(table, LAMBDA c : c.variety \in Range(varieties))

\* issueDateLookup: the first issue date stored under unit|line|mixing|cotton;
\* a later row replaces an entry whose date is falsy
LookupKey(r) ==
    OrElse(r.unit, << "_", "_", "N", "O", "_", "U", "N", "I", "T", "_", "_" >>) \o Bar
    \o OrElse(r.line, << "_", "_", "N", "O", "_", "L", "I", "N", "E", "_", "_" >>) \o Bar
    \o (IF r.mixing_no = NullN
        THEN << "_", "_", "N", "O", "_", "M", "I", "X", "I", "N", "G", "_", "_" >>
        ELSE ShowNum(r.mixing_no)) \o Bar
    \o OrElse(r.cotton, << "_", "_", "N", "O", "_", "C", "O", "T", "T", "O", "N", "_", "_" >>)

IssueDateLookup(issues, key) ==
    LET hits == { i \in 1..Len(issues) : LookupKey(issues[i]) = key /\ HasDate(issues[i].issue_date) }
    IN IF hits = {} THEN NullDate
       ELSE issues[CHOOSE i \in hits : \A j \in hits : i <= j].issue_date

-----------------------------------------------------------------------------
(* Weighted aggregation of one group (daily lines 1159-1296, repeated for   *)
(* weekly/monthly at lines 1659-1780)                                       *)

MetricKeys == { "mic", "str", "uhml", "rd", "plus_b", "sf", "ui", "elong", "trash", "moist" }

\* rows.reduce((sum, r) => sum + Number(r.issue_bale || 0), 0)
TotalBales(rows) == NumSum([i \in 1..Len(rows) |-> NumberOrZero(rows[i].issue_bale)])

\* [...new Set(rows.map(r => r.lot_no))].length
NoOfLots(rows) == Cardinality({ rows[i].lot_no : i \in 1..Len(rows) })

\* lotResults.find((l) => l.lot_no === mixRow.lot_no): its index, 0 when there is none
FindLot(lots, lotNo) ==
    LET hits == { i \in 1..Len(lots) : lots[i].lot_no = lotNo }
    IN IF hits = {} THEN 0 ELSE CHOOSE i \in hits : \A j \in hits : i <= j

\* the loop without its `if (!lot) continue`
MissingLotNotSkipped(li) == FALSE

\* if (!lot) continue;
MissingLotSkipped(li) == li = 0

\* reading lot.mic of a row whose lot was not found throws a TypeError, unless the
\* row was skipped before
AggregationThrows(rows, lots) ==
    \E i \in 1..Len(rows) :
        FindLot(lots, rows[i].lot_no) = 0 /\ ~MissingLotSkipped(FindLot(lots, rows[i].lot_no))

\* the lot's share of bales below the minimum mic counts when it is stored as a number
\* and the lot's bale count is positive
HasMinMicShare(lot) == IsNum(lot.min_mic_bale_per_lot) /\ lot.no_of_bale > 0

EmptyAcc == [w |-> [k \in MetricKeys |-> 0],
             lotBalesMap |-> << >>,
             minMicNum |-> << 0, 1 >>,
             minMicValues |-> << >>]

\* lotBalesMap[lotKey] = (lotBalesMap[lotKey] || 0) + bales
AddLotBales(map, lotKey, bales) ==
    IF \E i \in 1..Len(map) : map[i][1] = lotKey
    THEN [i \in 1..Len(map) |->
            IF map[i][1] = lotKey
            THEN << lotKey, NumAdd(IF map[i][2] = NaN THEN 0 ELSE map[i][2], bales) >>
            ELSE map[i]]
    ELSE Append(map, << lotKey, bales >>)

\* one pass of `for (const mixRow of rows)`: a row whose lot has no result is skipped
AccumulateRow(acc, mixRow, lots) ==
    LET li == FindLot(lots, mixRow.lot_no)
        lot == lots[li]
        bales == NumberOrZero(mixRow.issue_bale)
    IN IF MissingLotSkipped(li) THEN acc
       ELSE [w |-> [k \in MetricKeys |-> NumAdd(acc.w[k], NumMul(NumberElseZero(lot.m[k]), bales))],
             lotBalesMap |-> IF Truthy(mixRow.lot_no)
                             THEN AddLotBales(acc.lotBalesMap, mixRow.lot_no, bales)
                             ELSE acc.lotBalesMap,
             minMicNum |-> IF HasMinMicShare(lot) /\ IsNum(bales) /\ acc.minMicNum[1] # NaN
                           THEN FracAdd(acc.minMicNum,
                                        << bales * lot.min_mic_bale_per_lot * 100, lot.no_of_bale >>)
                           ELSE IF HasMinMicShare(lot) THEN << NaN, 1 >>
                           ELSE acc.minMicNum,
             minMicValues |-> IF IsNum(lot.min_mic)
                              THEN Append(acc.minMicValues, lot.min_mic)
                              ELSE acc.minMicValues]

Accumulate(rows, lots) ==
    LET acc[n \in 0..Len(rows)] ==
            IF n = 0 THEN EmptyAcc ELSE AccumulateRow(acc[n - 1], rows[n], lots)
    IN acc[Len(rows)]

\* the quotient cut off after two decimals instead of rounded
NormalizeMetricTruncating(sum, totalBales) ==
    IF totalBales > 0 THEN sum \div totalBales ELSE sum

\* weighted[key] = +(weighted[key] / totalBales).toFixed(2), only when totalBales > 0
NormalizeMetric(sum, totalBales) ==
    IF totalBales > 0 THEN RoundDiv(sum, totalBales) ELSE sum

\* weighted.min_mic_percent, in hundredths of a percent
MinMicPercent(num, totalBales) ==
    IF totalBales > 0 THEN RoundDiv(100 * num[1], num[2] * totalBales) ELSE 0

SeqMin(vals) == CHOOSE v \in Range(vals) : \A u \in Range(vals) : v <= u
SeqMax(vals) == CHOOSE v \in Range(vals) : \A u \in Range(vals) : v >= u

\* the largest instead of the smallest min_mic
MinMicLargest(minMicValues) == IF minMicValues # << >> THEN SeqMax(minMicValues) ELSE NullN

\* weighted.min_mic = Math.min(...minMicValues).toFixed(2) when a lot supplied one
MinMic(minMicValues) == IF minMicValues # << >> THEN SeqMin(minMicValues) ELSE NullN

\* Number(n) of a mixing number: Number(null) is 0
MixingNumber(n) == IF n = NullN THEN 0 ELSE n

\* [...new Set(nos)].map(Number).filter(not NaN).sort((a, b) => a - b)
SortedMixingNumbers(nos) ==
    StableSort(SelectSeq([i \in 1..Len(Distinct(nos)) |-> MixingNumber(Distinct(nos)[i])],
                         LAMBDA n : n # NaN),
               LAMBDA a, b : a < b)

\* mixingRange: "<min>-<max>", the single number when they agree, `fallback` when
\* no mixing number is numeric
MixingRange(mixingNumbers, fallback) ==
    IF mixingNumbers = << >> THEN fallback
    ELSE IF SeqMin(mixingNumbers) = SeqMax(mixingNumbers) THEN NumStr(SeqMin(mixingNumbers))
    ELSE NumStr(SeqMin(mixingNumbers)) \o << "-" >> \o NumStr(SeqMax(mixingNumbers))

\* the distinct truthy varieties of the lot results whose lot is used by the rows
UniqueVarieties(rows, lots) ==
    LET used == SelectSeq(lots, LAMBDA l : l.lot_no \in { rows[i].lot_no : i \in 1..Len(rows) })
    IN Distinct(SelectSeq([i \in 1..Len(used) |-> used[i].variety], Truthy))

-----------------------------------------------------------------------------
(* Blend resolution *)

\* varietyMap[variety]: the last mixing_code row of the variety that has a name
VarietyInfo(codes, variety) ==
    LET hits == { i \in 1..Len(codes) :
                    Truthy(codes[i].variety) /\ Truthy(codes[i].cotton_name)
                    /\ codes[i].variety = variety }
    IN IF hits = {} THEN 0 ELSE CHOOSE i \in hits : \A j \in hits : i >= j

\* the rows that count for the blend: the lot is known, has a variety, and the
\* variety is mapped
BlendRows(rows, lots, codes) ==
    SelectSeq(rows, LAMBDA r :
        /\ FindLot(lots, r.lot_no) # 0
        /\ Truthy(lots[FindLot(lots, r.lot_no)].variety)
        /\ VarietyInfo(codes, lots[FindLot(lots, r.lot_no)].variety) # 0)

CodeOfRow(r, lots, codes) == codes[VarietyInfo(codes, lots[FindLot(lots, r.lot_no)].variety)]

\* issueBale * weight, with Number(x) || 0 for both
WeightedValue(r, lots, codes) ==
    NumberElseZero(r.issue_bale) * NumberElseZero(CodeOfRow(r, lots, codes).weight)

\* cottonContributions as << name, value >> pairs in insertion order
CottonContributions(rows, lots, codes) ==
    LET br == BlendRows(rows, lots, codes)
        names == Distinct([i \in 1..Len(br) |-> CodeOfRow(br[i], lots, codes).cotton_name])
    IN [n \in 1..Len(names) |->
          << names[n],
             SeqSum([i \in 1..Len(br) |->
                        IF CodeOfRow(br[i], lots, codes).cotton_name = names[n]
                        THEN WeightedValue(br[i], lots, codes) ELSE 0]) >>]

\* weekly/monthly: totalWeightedSum adds the bales of the rows that count
PeriodTotalWeightedSum(rows, lots, codes) ==
    LET br == BlendRows(rows, lots, codes)
    IN SeqSum([i \in 1..Len(br) |-> NumberElseZero(br[i].issue_bale)])

\* the daily total taken over the bales instead of the weighted values
DailyTotalOfBales(rows, lots, codes) ==
    LET br == BlendRows(rows, lots, codes)
    IN SeqSum([i \in 1..Len(br) |-> NumberElseZero(br[i].issue_bale)])

\* daily: totalWeightedSum adds the weighted values
DailyTotalWeightedSum(rows, lots, codes) ==
    LET br == BlendRows(rows, lots, codes)
    IN SeqSum([i \in 1..Len(br) |-> WeightedValue(br[i], lots, codes)])

Plus == << "+" >>

\* daily: the names with a positive contribution, sorted without regard to case;
\* when there is none, every distinct name of mixingCodeData
DailyCottonNames(contribs, codes) ==
    LET positive == SelectSeq(contribs, LAMBDA c : c[2] > 0)
        names == [i \in 1..Len(positive) |-> positive[i][1]]
        allNames == Distinct(SelectSeq([i \in 1..Len(codes) |-> codes[i].cotton_name], Truthy))
    IN StableSort(IF names = << >> THEN allNames ELSE names, StrLess)

ContributionOf(contribs, name) ==
    LET hits == { i \in 1..Len(contribs) : contribs[i][1] = name }
    IN IF hits = {} THEN 0 ELSE contribs[CHOOSE i \in hits : TRUE][2]

\* Math.round(contribution / totalWeightedSum * 100), 0 without a contribution
DailyBlendPercentage(contribution, totalWeightedSum) ==
    IF totalWeightedSum > 0 /\ contribution # 0
    THEN RoundDiv(contribution * 100, totalWeightedSum)
    ELSE 0

\* daily mixing and blend_percent from the contributions and their total;
\* blend_percent is kept as the sequence of the percentages that the response joins
\* with "+"
DailyBlendOf(contribs, total, codes) ==
    LET names == DailyCottonNames(contribs, codes)
    IN [mixing |-> JoinWith(names, Plus),
        blend_percent |-> [i \in 1..Len(names) |->
                              DailyBlendPercentage(ContributionOf(contribs, names[i]), total)]]

\* lines 1326-1369: the daily blend of one group
DailyBlend(rows, lots, codes) ==
    DailyBlendOf(CottonContributions(rows, lots, codes),
                 DailyTotalWeightedSum(rows, lots, codes), codes)

NoBlend == [mixing |-> << >>, blend_percent |-> << >>]


\* ((value / totalValue) * 100).toFixed(1), in tenths of a percent
PeriodBlendPercentage(value, totalValue) ==
    IF totalValue > 0 THEN RoundDiv(value * 1000, totalValue) ELSE 0

\* contributionStrings: only the first three are kept
TopContributions(items) == SubSeq(items, 1, IF Len(items) < 3 THEN Len(items) ELSE 3)

\* split("+") of a string
RECURSIVE SplitPlus(_)
SplitPlus(t) ==
    LET cut == { i \in 1..Len(t) : t[i] = "+" }
    IN IF cut = {} THEN << t >>
       ELSE LET i == CHOOSE c \in cut : \A d \in cut : c <= d
            IN << SubSeq(t, 1, i - 1) >> \o SplitPlus(SubSeq(t, i + 1, Len(t)))

\* normalizeMixingSignature of a trimmed text: its non-empty parts, sorted and joined
SignatureOfRaw(raw) ==
    LET split == SplitPlus(raw)
        parts == SelectSeq([i \in 1..Len(split) |-> Trim(split[i])], LAMBDA x : x # << >>)
    IN IF raw = << >> \/ parts = << >> THEN << >>
       ELSE IF Len(parts) = 1 THEN parts[1]
       ELSE JoinWith(StableSort(parts, StrLess), Plus)

\* normalizeMixingSignature: null and undefined give ""
normalizeMixingSignature(value) ==
    IF value = NullS \/ value = Absent THEN << >> ELSE SignatureOfRaw(Trim(value))

\* weekly/monthly mixing and blend_percent from the contributions sorted by value,
\* largest first; blend_percent is kept as the sequence of << name, tenths of a
\* percent >> that the response renders "<name> <pct>%"
PeriodBlendOf(sorted) ==
    LET totalValue == SeqSum([i \in 1..Len(sorted) |-> sorted[i][2]])
    IN [mixing |-> normalizeMixingSignature(JoinWith([i \in 1..Len(sorted) |-> sorted[i][1]], Plus)),
        blend_percent |-> TopContributions(
                       [i \in 1..Len(sorted) |->
                           << sorted[i][1], PeriodBlendPercentage(sorted[i][2], totalValue) >>])]

\* lines 1822-1862: the weekly/monthly blend of one group
PeriodBlend(rows, lots, codes) ==
    IF PeriodTotalWeightedSum(rows, lots, codes) > 0
    THEN PeriodBlendOf(StableSort(CottonContributions(rows, lots, codes),
                                  LAMBDA a, b : a[2] > b[2]))
    ELSE NoBlend

-----------------------------------------------------------------------------
(* Period bucketing *)

Pad2(n) == IF n < 10 THEN << "0" >> \o NumStr(n) ELSE NumStr(n)

\* the characters of a date string or period label
RenderDate(x) ==
    CASE x.k = "ok" -> NumStr(x.y) \o << "-" >> \o Pad2(x.m) \o << "-" >> \o Pad2(x.d)
      [] x.k = "month" -> NumStr(x.y) \o << "-" >> \o Pad2(x.m)
      [] x.k = "week" -> NumStr(x.y) \o << "-" >> \o Pad2(x.m) \o << "-", "W" >> \o NumStr(x.d)
      [] x.k = "bad" -> << "?" >>
      [] OTHER -> << "n", "u", "l", "l" >>

\* the day of the month new Date(x) falls on
DayOfMonth(x) == IF x.k = "month" THEN 1 ELSE x.d

\* Math.ceil(n / 7)
CeilDiv7(n) == (n + 6) \div 7

\* the week counted in whole weeks gone by
PeriodLabelWeeksGone(issueDate, reportType) ==
    IF ~HasDate(issueDate) \/ GetTime(issueDate) = NaN THEN NullDate
    ELSE CASE reportType = "weekly" ->
                 [k |-> "week", y |-> issueDate.y, m |-> issueDate.m,
                  d |-> DayOfMonth(issueDate) \div 7]
           [] reportType = "monthly" ->
                 [k |-> "month", y |-> issueDate.y, m |-> issueDate.m, d |-> 0]
           [] OTHER -> Day(issueDate.y, issueDate.m, DayOfMonth(issueDate))

\* PERIOD_FORMATTERS[reportType](issueDate): the label, NullDate when there is none
PeriodLabel(issueDate, reportType) ==
    IF ~HasDate(issueDate) \/ GetTime(issueDate) = NaN THEN NullDate
    ELSE CASE reportType = "weekly" ->
                 [k |-> "week", y |-> issueDate.y, m |-> issueDate.m,
                  d |-> CeilDiv7(DayOfMonth(issueDate))]
           [] reportType = "monthly" ->
                 [k |-> "month", y |-> issueDate.y, m |-> issueDate.m, d |-> 0]
           [] OTHER -> Day(issueDate.y, issueDate.m, DayOfMonth(issueDate))

\* buildPeriodDescriptor, given the label the formatter produced. The weekly sort key
\* "YYYY-MM-<week, two digits>" is the text of a date string, the weekly sort value
\* the number YYYYMM<week, two digits>.
DescriptorOf(label, reportType) ==
    IF ~HasDate(label) THEN [label |-> NullDate, sortKey |-> NullDate, sortValue |-> NullN]
    ELSE CASE reportType = "weekly" ->
                 [label |-> label,
                  sortKey |-> Day(label.y, label.m, label.d),
                  sortValue |-> (label.y * 100 + label.m) * 100 + label.d]
           [] reportType = "monthly" ->
                 [label |-> label, sortKey |-> label, sortValue |-> label.y * 100 + label.m]
           [] OTHER ->
                 [label |-> label, sortKey |-> label, sortValue |-> GetTime(label)]

\* buildPeriodDescriptor(issueDate, reportType)
buildPeriodDescriptor(issueDate, reportType) ==
    DescriptorOf(PeriodLabel(issueDate, reportType), reportType)

-----------------------------------------------------------------------------
(* Grouping *)

\* daily: groups keyed `${row.mixing_no}|${row.cotton}`; Object.values in insertion order
DailyGroupKey(row) == ShowNum(row.mixing_no) \o Bar \o Show(row.cotton)

DailyGroups(mixing) ==
    LET keys == Distinct([i \in 1..Len(mixing) |-> DailyGroupKey(mixing[i])])
    IN [g \in 1..Len(keys) |-> SelectSeq(mixing, LAMBDA r : DailyGroupKey(r) = keys[g])]

\* weekly/monthly: the issues that open or join a group
PeriodIssues(issues, cottonFilters, reportType) ==
    SelectSeq(issues, LAMBDA i :
        /\ HasDate(buildPeriodDescriptor(i.issue_date, reportType).label)
        /\ (cottonFilters = << >> \/ i.cotton \in Range(cottonFilters)))

PeriodGroupKey(issue, reportType) ==
    RenderDate(buildPeriodDescriptor(issue.issue_date, reportType).label) \o Bar
    \o Show(issue.unit) \o Bar \o Show(issue.line) \o Bar \o Show(issue.cotton)

\* String(x ?? "").trim()
TrimOrEmpty(x) == Trim(OrElse(x, << >>))

\* relevantMixingData of one group
RelevantMixingData(mixing, group, f) ==
    LET mixingNoValues == { NumStr(n) : n \in { v \in Range(group.mixing_nos) : v # NullN } }
    IN SelectSeq(mixing, LAMBDA m :
        /\ m.mixing_no # NullN
        /\ NumStr(m.mixing_no) \in mixingNoValues
        /\ TrimOrEmpty(m.unit) = TrimOrEmpty(group.unit)
        /\ TrimOrEmpty(m.line) = TrimOrEmpty(group.line)
        /\ ToUpper(TrimOrEmpty(m.cotton)) = ToUpper(TrimOrEmpty(group.cotton))
        /\ (f.unit = << >> \/ \E v \in Range(f.unit) : Trim(v) = TrimOrEmpty(m.unit))
        /\ (f.line = << >> \/ \E v \in Range(f.line) : Trim(v) = TrimOrEmpty(m.line))
        /\ (f.cotton = << >>
            \/ \E v \in Range(f.cotton) : ToUpper(Trim(v)) = ToUpper(TrimOrEmpty(m.cotton))))

\* the { raw, sortValue } a row adds to _raw_issue_dates, given the descriptor of
\* the row's issue date: raw is the row's period label
RawDateOf(pd, group) ==
    [raw |-> IF HasDate(pd.label) THEN pd.label ELSE group.issue_date,
     sortValue |-> IF pd.sortValue # NullN THEN pd.sortValue ELSE group._issueSortValue]

\* the same for a row, whose issue date is looked up by its key
RowRawDate(row, group, issues, reportType) ==
    RawDateOf(buildPeriodDescriptor(IssueDateLookup(issues, LookupKey(row)), reportType), group)

\* a group as the first loop opens it (lines 1506-1560): members are its issues
OpenGroup(members, reportType) ==
    LET pd == buildPeriodDescriptor(members[1].issue_date, reportType)
    IN [unit |-> members[1].unit,
        line |-> members[1].line,
        cotton |-> members[1].cotton,
        mixing_nos |-> [i \in 1..Len(members) |-> members[i].mixing_no],
        issue_date |-> pd.label,
        issue_date_sort_key |-> pd.sortKey,
        _issueSortValue |-> pd.sortValue,
        _raw_issue_dates |->
            [i \in 1..Len(members) |->
                [raw |-> members[i].issue_date,
                 sortValue |-> buildPeriodDescriptor(members[i].issue_date, reportType).sortValue]]]

\* the group after the second loop (lines 1562-1650) gave it its rows
FillGroup(group, issues, mixing, f, reportType) ==
    LET rows == RelevantMixingData(mixing, group, f)
        rowDates == SelectSeq([i \in 1..Len(rows) |-> RowRawDate(rows[i], group, issues, reportType)],
                              LAMBDA e : e.sortValue # NullN)
    IN [group EXCEPT !._raw_issue_dates = @ \o rowDates] @@ [rows |-> rows]

\* groupedData after both loops (lines 1506-1650), Object.entries in insertion order
PeriodGroups(issues, mixing, f, reportType) ==
    LET kept == PeriodIssues(issues, f.cotton, reportType)
        keys == Distinct([i \in 1..Len(kept) |-> PeriodGroupKey(kept[i], reportType)])
    IN [g \in 1..Len(keys) |->
          FillGroup(OpenGroup(SelectSeq(kept, LAMBDA i : PeriodGroupKey(i, reportType) = keys[g]),
                              reportType),
                    issues, mixing, f, reportType)]

-----------------------------------------------------------------------------
(* Daily entries *)

\* new Date(dateStr).getTime() || 0
TimeOrZero(x) == IF GetTime(x) = NaN THEN 0 ELSE GetTime(x)

\* weighted.issue_date of a daily group: the joined dates, sorted by time, the first
DailyIssueDate(rows, issues) ==
    LET issueDates == SelectSeq([i \in 1..Len(rows) |-> IssueDateLookup(issues, LookupKey(rows[i]))],
                                HasDate)
        sortedIssueDates == StableSort(issueDates, LAMBDA a, b : TimeOrZero(a) < TimeOrZero(b))
    IN IF issueDates = << >> THEN NullDate ELSE sortedIssueDates[1]

\* the fields both kinds of entry share (lines 1179-1207 and 1678-1710, with the
\* normalised metrics of lines 1273-1296 and 1757-1780)
WeightedFields(rows, lots) ==
    LET totalBales == TotalBales(rows)
        acc == Accumulate(rows, lots)
    IN [k \in MetricKeys |-> NormalizeMetric(acc.w[k], totalBales)]
       @@ [total_bales |-> totalBales,
           no_of_lots |-> NoOfLots(rows),
           min_mic |-> MinMic(acc.minMicValues),
           min_mic_percent |-> MinMicPercent(acc.minMicNum, totalBales),
           bale_change_over_percent |-> NullN,
           lot_change_over_percent |-> NullN,
           previous_mixing_no |-> NullS,
           _lotBalesMap |-> acc.lotBalesMap]

\* the entry of one daily group; blend is the mixing / blend_percent pair
DailyEntry(rows, issues, lots, blend) ==
    LET mixingNumbers == SortedMixingNumbers([i \in 1..Len(rows) |-> rows[i].mixing_no])
        parsed == parseCottonVersion(rows[1].cotton)
    IN WeightedFields(rows, lots)
       @@ [mixing_no |-> MixingRange(mixingNumbers, ShowNum(rows[1].mixing_no)),
           minMixing |-> IF mixingNumbers = << >> THEN NullN ELSE SeqMin(mixingNumbers),
           unit |-> rows[1].unit,
           line |-> rows[1].line,
           cotton |-> rows[1].cotton,
           issue_date |-> DailyIssueDate(rows, issues),
           mixing |-> blend.mixing,
           blend_percent |-> blend.blend_percent,
           mixing_start |-> IF mixingNumbers = << >> THEN NullN ELSE SeqMin(mixingNumbers),
           mixing_end |-> IF mixingNumbers = << >> THEN NullN ELSE SeqMax(mixingNumbers),
           _mixingNumbers |-> mixingNumbers,
           _groupKey |-> parsed.groupKey,
           _versionNumber |-> parsed.versionNumber]

-----------------------------------------------------------------------------
(* Continuity *)

SignatureOf(unit, line, groupKey) ==
    OrElse(unit, << "_", "_", "N", "O", "_", "U", "N", "I", "T", "_", "_" >>) \o Bar
    \o OrElse(line, << "_", "_", "N", "O", "_", "L", "I", "N", "E", "_", "_" >>) \o Bar
    \o groupKey

\* entry._groupKey (daily) or entry._cottonSignature (weekly/monthly)
EntryGroupKey(e) == IF "_groupKey" \in DOMAIN e THEN e._groupKey ELSE e._cottonSignature

Signature(e) == SignatureOf(e.unit, e.line, EntryGroupKey(e))

\* maxMixNo: NullN when the entry has no numeric mixing number
MaxMixNo(e) == IF e._mixingNumbers # << >> THEN SeqMax(e._mixingNumbers) ELSE e.mixing_end

\* issueTimestamp: entry.issue_date ? new Date(entry.issue_date).getTime() : null
IssueTimestamp(e) == IF HasDate(e.issue_date) THEN GetTime(e.issue_date) ELSE NullN

MaxSafeInteger == 1000000

\* x ?? Number.MAX_SAFE_INTEGER
OrMaxSafe(x) == IF x = NullN THEN MaxSafeInteger ELSE x

\* the comparator of records.sort: -1, 0 or 1; a NaN difference counts as 0
ContinuityCompare(a, b) ==
    LET ta == IssueTimestamp(a)
        tb == IssueTimestamp(b)
    IN IF ta # tb \/ ta = NaN THEN
           IF ta = NullN THEN 1
           ELSE IF tb = NullN THEN 0 - 1
           ELSE IF ta = NaN \/ tb = NaN THEN 0
           ELSE IF ta < tb THEN 0 - 1 ELSE 1
       ELSE IF OrMaxSafe(a._versionNumber) # OrMaxSafe(b._versionNumber) THEN
           IF OrMaxSafe(a._versionNumber) < OrMaxSafe(b._versionNumber) THEN 0 - 1 ELSE 1
       ELSE IF OrMaxSafe(MaxMixNo(a)) # OrMaxSafe(MaxMixNo(b)) THEN
           IF OrMaxSafe(MaxMixNo(a)) < OrMaxSafe(MaxMixNo(b)) THEN 0 - 1 ELSE 1
       ELSE 0

\* continuityGroups[signature] after records.sort, as indices into the entries
ContinuityRecords(entries, signature) ==
    StableSort(SelectSeq([i \in 1..Len(entries) |-> i],
                         LAMBDA i : Signature(entries[i]) = signature),
               LAMBDA i, j : ContinuityCompare(entries[i], entries[j]) < 0)

\* groupStats[signature] as the loop leaves it after an entry
NoStats == [lastVersion |-> NullN, lastTimestamp |-> NullN]
StatsAfter(e) == [lastVersion |-> e._versionNumber, lastTimestamp |-> IssueTimestamp(e)]

\* hasSameGroup
HasSameGroup(stats) == stats.lastVersion # NullN /\ stats.lastTimestamp # NullN

LotBales(map, lotNo) ==
    LET hits == { i \in 1..Len(map) : map[i][1] = lotNo }
    IN IF hits = {} THEN 0 ELSE NumberElseZero(map[CHOOSE i \in hits : TRUE][2])

LotKeys(map) == { map[i][1] : i \in 1..Len(map) }

\* the lot numbers of both maps, each once
LotUnion(prevMap, currMap) ==
    Distinct([i \in 1..Len(prevMap) |-> prevMap[i][1]] \o [i \in 1..Len(currMap) |-> currMap[i][1]])

Abs(x) == IF x < 0 THEN 0 - x ELSE x

\* absoluteDifferenceSum over the union of the lot numbers
AbsoluteDifferenceSum(prevMap, currMap) ==
    LET lotSet == LotUnion(prevMap, currMap)
    IN SeqSum([i \in 1..Len(lotSet) |-> Abs(LotBales(currMap, lotSet[i]) - LotBales(prevMap, lotSet[i]))])

\* newLotCount + removedLotCount
ChangedLotCount(prevMap, currMap) ==
    LET lotSet == LotUnion(prevMap, currMap)
    IN Cardinality({ i \in 1..Len(lotSet) :
                        \/ (LotBales(prevMap, lotSet[i]) = 0 /\ LotBales(currMap, lotSet[i]) > 0)
                        \/ (LotBales(currMap, lotSet[i]) = 0 /\ LotBales(prevMap, lotSet[i]) > 0) })

\* parseFloat(((n / d) * 100).toFixed(2)) in hundredths of a percent, null unless d > 0
PercentOf(n, d) == IF d > 0 THEN RoundDiv(n * 10000, d) ELSE NullN

\* the three fields the continuity loop writes when it compares with `previous`
ChangeFields(previous, entry) ==
    [bale_change_over_percent |->
         PercentOf(AbsoluteDifferenceSum(previous._lotBalesMap, entry._lotBalesMap),
                   NumberElseZero(previous.total_bales)),
     lot_change_over_percent |->
         PercentOf(ChangedLotCount(previous._lotBalesMap, entry._lotBalesMap),
                   NumberElseZero(previous.no_of_lots)),
     previous_mixing_no |-> previous.mixing_no]

\* entry with the three fields of c written into it
WithChanges(entry, c) ==
    [entry EXCEPT !.bale_change_over_percent = c.bale_change_over_percent,
                  !.lot_change_over_percent = c.lot_change_over_percent,
                  !.previous_mixing_no = c.previous_mixing_no]

\* one step of records.forEach of the daily branch; stats is groupStats[signature]
\* before the entry, previous the entry before it in the sorted records
DailyContinuityStep(entry, index, stats, previous) ==
    IF index = 1 \/ ~HasSameGroup(stats)
    THEN [entry EXCEPT !.bale_change_over_percent = NullN,
                       !.lot_change_over_percent = NullN,
                       !.previous_mixing_no = NullS]
    ELSE WithChanges(entry, ChangeFields(previous, entry))

\* the same step of the weekly/monthly branch, which keeps period-level values
PeriodContinuityStep(entry, index, stats, previous) ==
    IF index = 1 \/ ~HasSameGroup(stats) THEN entry
    ELSE IF entry.bale_change_over_percent = NullN /\ entry.lot_change_over_percent = NullN
    THEN WithChanges(entry, ChangeFields(previous, entry))
    ELSE [entry EXCEPT !.previous_mixing_no =
                           IF @ = NullS THEN previous.mixing_no ELSE @]

\* the step of entry p, given the sorted records of its signature group
StepIn(entries, p, records, reportType) ==
    LET index == CHOOSE i \in 1..Len(records) : records[i] = p
        stats == IF index = 1 THEN NoStats ELSE StatsAfter(entries[records[index - 1]])
        previous == entries[records[index - 1]]
    IN IF reportType = "daily"
       THEN DailyContinuityStep(entries[p], index, stats, previous)
       ELSE PeriodContinuityStep(entries[p], index, stats, previous)

\* the entries after the continuity loops ran over every signature group
ApplyContinuity(entries, reportType) ==
    [p \in 1..Len(entries) |->
        StepIn(entries, p, ContinuityRecords(entries, Signature(entries[p])), reportType)]

-----------------------------------------------------------------------------
(* Weekly / monthly entries *)

\* mixMap: one aggregate per truthy mixing number of the group's rows. Object.values
\* lists integer keys in ascending order.
MixMap(rows, issues) ==
    LET nos == SortedMixingNumbers(
                   SelectSeq([i \in 1..Len(rows) |-> rows[i].mixing_no], LAMBDA n : n > 0))
        Of(mn) == SelectSeq(rows, LAMBDA r : r.mixing_no = mn)
        LotMap(rs) ==
            LET step[n \in 0..Len(rs)] ==
                    IF n = 0 THEN << >>
                    ELSE IF Truthy(rs[n].lot_no)
                         THEN AddLotBales(step[n - 1], rs[n].lot_no, NumberOrZero(rs[n].issue_bale))
                         ELSE step[n - 1]
            IN step[Len(rs)]
    IN [i \in 1..Len(nos) |->
          [mixing_no |-> nos[i],
           totalBales |-> TotalBales(Of(nos[i])),
           lotMap |-> LotMap(Of(nos[i])),
           issueDate |-> IssueDateLookup(issues, LookupKey(Of(nos[i])[1]))]]

\* issueTimestamp of a mixMap item
MixTimestamp(m) == IF HasDate(m.issueDate) THEN GetTime(m.issueDate) ELSE NullN

\* a comparator that looks at the mixing number alone
MixingListCompareByNumber(a, b) ==
    IF a.mixing_no < b.mixing_no THEN 0 - 1
    ELSE IF a.mixing_no > b.mixing_no THEN 1 ELSE 0

\* the comparator of mixingList.sort: issue timestamp, nulls last, then mixing number
MixingListCompare(a, b) ==
    LET ta == MixTimestamp(a)
        tb == MixTimestamp(b)
    IN IF ta # tb \/ ta = NaN THEN
           IF ta = NullN THEN 1
           ELSE IF tb = NullN THEN 0 - 1
           ELSE IF ta = NaN \/ tb = NaN THEN 0
           ELSE IF ta < tb THEN 0 - 1 ELSE 1
       ELSE IF a.mixing_no < b.mixing_no THEN 0 - 1
       ELSE IF a.mixing_no > b.mixing_no THEN 1 ELSE 0

MixingList(rows, issues) ==
    StableSort(MixMap(rows, issues), LAMBDA a, b : MixingListCompare(a, b) < 0)

\* lotMap[lotNo] > 0 for an own key
HasLot(map, lotNo) == lotNo \in LotKeys(map) /\ LotBales(map, lotNo) > 0

\* balePct of one pair as a fraction, << >> when the pair is skipped
PairBalePct(prev, curr) ==
    LET diff == AbsoluteDifferenceSum(prev.lotMap, curr.lotMap)
    IN IF NumberElseZero(prev.totalBales) > 0 THEN << << diff * 100, prev.totalBales >> >>
       ELSE IF prev.lotMap # << >> THEN (IF diff = 0 THEN << << 0, 1 >> >> ELSE << << 100, 1 >> >>)
       ELSE << >>

\* lotPct of one pair as a fraction, << >> when the pair is skipped
PairLotPct(prev, curr) ==
    LET lotSet == LotUnion(prev.lotMap, curr.lotMap)
        changed == Cardinality({ i \in 1..Len(lotSet) :
                       HasLot(prev.lotMap, lotSet[i]) # HasLot(curr.lotMap, lotSet[i]) })
    IN IF Len(prev.lotMap) > 0 THEN << << changed * 100, Len(prev.lotMap) >> >>
       ELSE << >>

\* +avg.toFixed(2) of the collected percentages, NullN when there is none
AveragePct(values) ==
    LET total[n \in 0..Len(values)] ==
            IF n = 0 THEN << 0, 1 >> ELSE FracAdd(total[n - 1], values[n])
    IN IF values = << >> THEN NullN
       ELSE RoundDiv(100 * total[Len(values)][1], total[Len(values)][2] * Len(values))

RECURSIVE Flatten(_)
Flatten(ss) == IF ss = << >> THEN << >> ELSE Head(ss) \o Flatten(Tail(ss))

\* the averages of the pairwise percentages over consecutive mixings (lines 1914-1992)
ChangesOf(mixingList) ==
    [bale_change_over_percent |->
         AveragePct(Flatten([i \in 1..(Len(mixingList) - 1) |->
                                PairBalePct(mixingList[i], mixingList[i + 1])])),
     lot_change_over_percent |->
         AveragePct(Flatten([i \in 1..(Len(mixingList) - 1) |->
                                PairLotPct(mixingList[i], mixingList[i + 1])]))]

\* the period-level bale and lot change percentages (lines 1872-1992)
PeriodLocalChanges(rows, issues) == ChangesOf(MixingList(rows, issues))

\* weighted.issue_date after lines 1782-1792: the label of the earliest raw date
PeriodIssueDate(group, reportType) ==
    LET sortedRawDates == StableSort(SelectSeq(group._raw_issue_dates, LAMBDA e : IsNum(e.sortValue)),
                                     LAMBDA a, b : a.sortValue < b.sortValue)
        relabelled == buildPeriodDescriptor(sortedRawDates[1].raw, reportType).label
    IN IF HasDate(group.issue_date_sort_key) /\ sortedRawDates # << >> /\ HasDate(relabelled)
       THEN relabelled
       ELSE group.issue_date

\* the entry of one weekly/monthly group
PeriodEntry(group, issues, lots, blend, reportType) ==
    LET mixingNumbers == SortedMixingNumbers(group.mixing_nos)
        parsed == parseCottonVersion(group.cotton)
        changes == PeriodLocalChanges(group.rows, issues)
    IN [bale_change_over_percent |-> changes.bale_change_over_percent,
        lot_change_over_percent |-> changes.lot_change_over_percent]
       @@ WeightedFields(group.rows, lots)
       @@ [mixing_no |-> MixingRange(mixingNumbers, ShowNum(group.mixing_nos[1])),
           unit |-> group.unit,
           line |-> group.line,
           cotton |-> group.cotton,
           issue_date |-> PeriodIssueDate(group, reportType),
           issue_date_sort_key |-> group.issue_date_sort_key,
           _issueSortValue |-> group._issueSortValue,
           _raw_issue_dates |-> group._raw_issue_dates,
           mixing |-> blend.mixing,
           blend_percent |-> blend.blend_percent,
           mixing_start |-> IF mixingNumbers = << >> THEN NullN ELSE mixingNumbers[1],
           mixing_end |-> IF mixingNumbers = << >> THEN NullN ELSE mixingNumbers[Len(mixingNumbers)],
           _mixingNumbers |-> mixingNumbers,
           _cottonSignature |-> parsed.groupKey,
           _versionNumber |-> parsed.versionNumber]

-----------------------------------------------------------------------------
(* The response *)

DailyPrivate == { "_lotBalesMap", "_groupKey", "_versionNumber", "_mixingNumbers" }
PeriodPrivate == { "_lotBalesMap", "_cottonSignature", "_versionNumber", "_mixingNumbers",
                   "mixing_start", "mixing_end", "_issueSortValue" }

\* ({ _lotBalesMap, ..., ...rest }) => rest
Strip(e, private) == [k \in (DOMAIN e) \ private |-> e[k]]

\* new Date(x).getTime() of a possibly null value: new Date(null) is the epoch
DateObjectTime(x) == IF ~HasDate(x) THEN 0 ELSE GetTime(x)

\* summary.sort((a, b) => new Date(b.issue_date) - new Date(a.issue_date)) < 0
DailyBefore(a, b) ==
    /\ DateObjectTime(a.issue_date) # NaN
    /\ DateObjectTime(b.issue_date) # NaN
    /\ DateObjectTime(b.issue_date) < DateObjectTime(a.issue_date)

\* issue_date_sort_key ?? issue_date
PeriodSortKey(e) == IF HasDate(e.issue_date_sort_key) THEN e.issue_date_sort_key ELSE e.issue_date

\* the comparator of the weekly/monthly summary.sort, < 0
PeriodBefore(a, b) ==
    LET keyA == PeriodSortKey(a)
        keyB == PeriodSortKey(b)
    IN IF keyA = keyB THEN FALSE
       ELSE IF ~HasDate(keyA) THEN FALSE
       ELSE IF ~HasDate(keyB) THEN TRUE
       ELSE StrLess(RenderDate(keyB), RenderDate(keyA))

\* the mixing filter on the finished summary: a name of row.mixing is among the filters
MatchesMixingFilter(row, mixingFilters) ==
    /\ row.mixing # << >>
    /\ \E name \in Range(SplitPlus(row.mixing)) : name \in Range(mixingFilters)

\* the mixing filter applied to the sorted summary, when one was sent
FilterByMixing(sorted, mixingFilters) ==
    IF mixingFilters # << >>
    THEN SelectSeq(sorted, LAMBDA row : MatchesMixingFilter(row, mixingFilters))
    ELSE sorted

\* the summary left in the order its entries were pushed
SortSummaryAsPushed(summary, reportType) == summary

\* summary.sort of either branch
SortSummary(summary, reportType) ==
    IF reportType = "daily" THEN StableSort(summary, DailyBefore)
    ELSE StableSort(summary, PeriodBefore)

\* the entries without their private fields
StripPrivate(linked, reportType) ==
    [i \in 1..Len(linked) |->
        Strip(linked[i], IF reportType = "daily" THEN DailyPrivate ELSE PeriodPrivate)]

\* what res.json receives once every group was aggregated
FinalSummary(entries, reportType, mixingFilters) ==
    FilterByMixing(SortSummary(StripPrivate(ApplyContinuity(entries, reportType), reportType),
                               reportType),
                   mixingFilters)

-----------------------------------------------------------------------------
(* The handler of GET /api/cotton-mixing-summary, one action per read *)

NoFilters == [unit |-> << >>, line |-> << >>, cotton |-> << >>, mixing |-> << >>,
              effectiveCotton |-> << >>]

reportType == ReportTypeOf(req)

Reply(code, summary) ==
    /\ status' = code
    /\ body' = summary
    /\ pc' = "done"

\* lines 943-964: the report_type check, then the filters
Validate ==
    /\ pc = "start"
    /\ IF ~ReportTypeValid(reportType)
       THEN /\ Reply(400, << >>)
            /\ UNCHANGED flt
       ELSE /\ flt' = [unit |-> parseArray(req.unit), line |-> parseArray(req.line),
                       cotton |-> parseArray(req.cotton), mixing |-> parseArray(req.mixing),
                       effectiveCotton |-> << >>]
            /\ pc' = "fetch_issue"
            /\ UNCHANGED << status, body >>
    /\ UNCHANGED << db, req, issueData, mixingData, lotResults, groups, gi, summaryEntries,
                    fetchLog, failed, run, firstBody, waiting, post >>

\* lines 1061-1102: the cotton filter on the rows read; no issue left means an
\* empty summary
IssuesKept(rawIssueData, effectiveCottonFilters) ==
    /\ issueData' = FilterIssuesByCotton(rawIssueData, effectiveCottonFilters)
    /\ flt' = [flt EXCEPT !.effectiveCotton = effectiveCottonFilters]
    /\ failed' = failed
    /\ IF issueData' = << >>
       THEN Reply(200, << >>)
       ELSE pc' = "fetch_mixing" /\ UNCHANGED << status, body >>

\* lines 1043-1102: the read of mixing_issue and the cotton filter
FetchIssues ==
    /\ pc = "fetch_issue"
    /\ fetchLog' = Append(fetchLog, "mixing_issue")
    /\ \E ok \in BOOLEAN :
         /\ StoreRejectsIssueQuery(req) => ~ok
         /\ IF ~ok
            THEN /\ failed' = failed \cup { "mixing_issue" }
                 /\ Reply(500, << >>)
                 /\ UNCHANGED << issueData, flt >>
            ELSE IssuesKept(IssueQuery(db.mixing_issue, req, flt),
                            EffectiveCottonFilters(flt.cotton,
                                                   IssueQuery(db.mixing_issue, req, flt)))
    /\ UNCHANGED << db, req, mixingData, lotResults, groups, gi, summaryEntries, run, firstBody, waiting, post >>

\* lines 1104-1123: the read of mixing_chart
FetchMixing ==
    /\ pc = "fetch_mixing"
    /\ fetchLog' = Append(fetchLog, "mixing_chart")
    /\ \E ok \in BOOLEAN :
         IF ~ok
         THEN /\ failed' = failed \cup { "mixing_chart" }
              /\ Reply(500, << >>)
              /\ UNCHANGED mixingData
         ELSE LET data == MixingQuery(db.mixing_chart, issueData, flt, flt.effectiveCotton)
              IN /\ mixingData' = data
                 /\ failed' = failed
                 /\ IF data = << >>
                    THEN Reply(200, << >>)
                    ELSE pc' = "fetch_lots" /\ UNCHANGED << status, body >>
    /\ UNCHANGED << db, req, flt, issueData, lotResults, groups, gi, summaryEntries, run, firstBody, waiting, post >>

\* the entries of a summary kept in an array that outlives the request
LeakedEntries == summaryEntries

\* const summaryEntries = [] / const summaryEntriesPeriod = []
FreshEntries == << >>

\* lines 1125-1153 and 1502-1653: the read of lot_results, then the grouping
FetchLots ==
    /\ pc = "fetch_lots"
    /\ fetchLog' = Append(fetchLog, "lot_results")
    /\ \E ok \in BOOLEAN :
         IF ~ok
         THEN /\ failed' = failed \cup { "lot_results" }
              /\ Reply(500, << >>)
              /\ UNCHANGED << lotResults, groups, gi, summaryEntries >>
         ELSE /\ lotResults' = LotQuery(db.lot_results, mixingData)
              /\ groups' = IF reportType = "daily" THEN DailyGroups(mixingData)
                           ELSE PeriodGroups(issueData, mixingData, flt, reportType)
              /\ gi' = 1
              /\ summaryEntries' = FreshEntries
              /\ failed' = failed
              /\ pc' = "aggregate"
              /\ UNCHANGED << status, body >>
    /\ UNCHANGED << db, req, flt, issueData, mixingData, run, firstBody, waiting, post >>

\* line 1313 swallows a failed read of mixing_code, line 1807 throws it
MixingCodeErrorThrown(rt) == rt # "daily"

\* the rows of the group the loop is at
GroupRows(group, rt) == IF rt = "daily" THEN group ELSE group.rows

\* the entry pushed for one group, given its blend
EntryOf(group, blend, rt) ==
    IF rt = "daily" THEN DailyEntry(group, issueData, lotResults, blend)
    ELSE PeriodEntry(group, issueData, lotResults, blend, rt)

BlendOf(rows, codes, rt) ==
    IF codes = << >> THEN NoBlend
    ELSE IF rt = "daily" THEN DailyBlend(rows, lotResults, codes)
    ELSE PeriodBlend(rows, lotResults, codes)

\* lines 1299-1381 and 1794-1997: the read of mixing_code a group with varieties
\* makes, and the entry pushed; a group without varieties gets the entry unread
BlendRead(group, rows, varieties) ==
    \E ok \in BOOLEAN :
        /\ varieties = << >> => ok
        /\ fetchLog' = IF varieties = << >> THEN fetchLog ELSE Append(fetchLog, "mixing_code")
        /\ failed' = IF ok THEN failed ELSE failed \cup { "mixing_code" }
        /\ IF ~ok /\ MixingCodeErrorThrown(reportType)
           THEN /\ Reply(500, << >>)
                /\ UNCHANGED << summaryEntries, gi >>
           ELSE /\ summaryEntries' =
                      Append(summaryEntries,
                             EntryOf(group,
                                     IF ok /\ varieties # << >>
                                     THEN BlendOf(rows, MixingCodeQuery(db.mixing_code, varieties),
                                                  reportType)
                                     ELSE NoBlend,
                                     reportType))
                /\ gi' = gi + 1
                /\ UNCHANGED << status, body, pc >>

\* lines 1156-1297 and 1655-1792: a group without rows is skipped, an exception
\* of the accumulation ends the request
GroupAggregated(group, rows) ==
    IF rows = << >>
    THEN /\ gi' = gi + 1
         /\ UNCHANGED << summaryEntries, fetchLog, failed, status, body, pc >>
    ELSE IF AggregationThrows(rows, lotResults)
    THEN /\ Reply(500, << >>)
         /\ UNCHANGED << summaryEntries, fetchLog, failed, gi >>
    ELSE BlendRead(group, rows, UniqueVarieties(rows, lotResults))

\* lines 1153-1381 and 1652-1997: one pass of the loop over the groups, with the
\* read of mixing_code it makes when the group has varieties
AggregateGroup ==
    /\ pc = "aggregate"
    /\ gi <= Len(groups)
    /\ GroupAggregated(groups[gi], GroupRows(groups[gi], reportType))
    /\ UNCHANGED << db, req, flt, issueData, mixingData, lotResults, groups, run, firstBody, waiting, post >>

\* lines 1383-1494 and 1999-2138: continuity, the private fields, the order, the
\* mixing filter, res.json(summary)
Respond ==
    /\ pc = "aggregate"
    /\ gi > Len(groups)
    /\ Reply(200, FinalSummary(summaryEntries, reportType, flt.mixing))
    /\ UNCHANGED << db, req, flt, issueData, mixingData, lotResults, groups, gi, summaryEntries,
                    fetchLog, failed, run, firstBody, waiting, post >>

-----------------------------------------------------------------------------
(* The stored collections and the requests the handler is run on *)

MaxRows == 2
MaxNames == 4
MaxEntries == 3

UnitA == << "A" >>
UnitB == << "B" >>
Line1 == << "1" >>
CottonAB == << "A", "B" >>
CottonABV1 == << "A", "B", "_", "V", "1" >>
CottonABV2 == << "A", "B", "-", "V", "2" >>
CottonCodes == { CottonAB, CottonABV1, CottonABV2 }

LotNo(i) == << "L" >> \o NumStr(i)
Variety(i) == << "V" >> \o NumStr(i)
CottonName(i) == << "N" >> \o NumStr(i)

IssueRecord(unit, mixingNo, cotton, date) ==
    [unit |-> unit, line |-> Line1, mixing_no |-> mixingNo, cotton |-> cotton, issue_date |-> date]

MixingRow(unit, mixingNo, cotton, lotNo, bales) ==
    [unit |-> unit, line |-> Line1, mixing_no |-> mixingNo, cotton |-> cotton,
     lot_no |-> lotNo, issue_bale |-> bales]

LotResult(lotNo, variety, mic, others, minMic, minMicBales, noOfBale) ==
    [lot_no |-> lotNo, variety |-> variety,
     m |-> [k \in MetricKeys |-> IF k = "mic" THEN mic ELSE others],
     min_mic |-> minMic, min_mic_bale_per_lot |-> minMicBales, no_of_bale |-> noOfBale]

VarietyWeight(variety, name, weight) ==
    [variety |-> variety, cotton_name |-> name, weight |-> weight]

Request(rt, fromDate, toDate, mixingFrom, unit, cotton, mixing) ==
    [report_type |-> rt, from_date |-> fromDate, to_date |-> toDate,
     mixing_from |-> mixingFrom, mixing_to |-> NullN,
     unit |-> unit, line |-> NoParam, cotton |-> cotton, mixing |-> mixing]

PlainRequest(rt) == Request(rt, NullDate, NullDate, NullN, NoParam, NoParam, NoParam)

Store(issues, chart, lots, codes) ==
    [mixing_issue |-> issues, mixing_chart |-> chart, lot_results |-> lots, mixing_code |-> codes]

\* sequences over S of the lengths lo..hi
SeqsOf(S, lo, hi) == UNION { [1..n -> S] : n \in lo..hi }

\* --- one group, its rows and lot results varied -----------------------------
MetricRowChoices ==
    ({ LotNo(1) } \X { 0, 100, NullN }) \cup ({ LotNo(2) } \X { 0, 50 })
    \cup ({ LotNo(9) } \X { 50 })

\* << mic, min_mic, min_mic_bale_per_lot >> of the first lot
MetricLotProfiles == { << 400, 350, 10 >>, << NullN, 350, NullN >>, << NaN, NullN, NullN >> }

MetricLotTables ==
    { << >> } \cup
    { << LotResult(LotNo(1), Variety(1), profile[1], 400, profile[2], profile[3], 100),
         LotResult(LotNo(2), Variety(2), 500, 300, 380, 5, 0) >> :
        profile \in MetricLotProfiles }

MetricStores ==
    { Store(<< IssueRecord(UnitA, 10, CottonABV1, Day(2024, 1, 31)) >>,
            [i \in 1..Len(picks) |->
                MixingRow(UnitA, 10, CottonABV1, picks[i][1], picks[i][2])],
            lots,
            << VarietyWeight(Variety(2), CottonName(2), 1) >>) :
        picks \in SeqsOf(MetricRowChoices, 1, MaxRows), lots \in MetricLotTables }

\* --- one group, its blend varied --------------------------------------------
BlendWeights == { "equal", "first zero", "first double", "all zero", "shared name" }

BlendCode(i, weights) ==
    VarietyWeight(Variety(i),
                  IF weights = "shared name" /\ i = 2 THEN CottonName(1) ELSE CottonName(i),
                  IF weights = "all zero" THEN 0
                  ELSE IF i = 1 /\ weights = "first zero" THEN 0
                  ELSE IF i = 1 /\ weights = "first double" THEN 2
                  ELSE 1)

BlendStores ==
    { Store(<< IssueRecord(UnitA, 10, CottonABV1, Day(2024, 1, 31)) >>,
            [i \in 1..Len(bales) |-> MixingRow(UnitA, 10, CottonABV1, LotNo(i), bales[i])],
            [i \in 1..Len(bales) |-> LotResult(LotNo(i), Variety(i), 400, 400, 350, 10, 100)],
            [i \in 1..Len(bales) |-> BlendCode(i, weights)]) :
        bales \in SeqsOf({ 1, 5 }, 1, MaxNames), weights \in BlendWeights }

\* --- several groups of one unit and line, their blend codes and order varied --
EntryDay(i, n, ascending) == Day(2024, IF ascending THEN i ELSE n + 1 - i, 10)

ContinuityStores ==
    { Store([i \in 1..Len(cottons) |->
                IssueRecord(UnitA, i, cottons[i], EntryDay(i, Len(cottons), ascending))],
            [i \in 1..Len(cottons) |->
                MixingRow(UnitA, i, cottons[i], LotNo(1 + (i % 2)), 50 * i)],
            << LotResult(LotNo(1), Variety(1), 400, 400, 350, 10, 100),
               LotResult(LotNo(2), Variety(2), 500, 300, 380, 5, 0) >>,
            << VarietyWeight(Variety(1), CottonName(1), 1),
               VarietyWeight(Variety(2), CottonName(2), 1) >>) :
        cottons \in SeqsOf(CottonCodes, MaxEntries, MaxEntries), ascending \in BOOLEAN }

\* --- one group, the bale counts of its rows numbers, null or a text that is no number
BaleCounts == { 100, 50, 0, NullN, NaN }

BaleStores ==
    { Store(<< IssueRecord(UnitA, 10, CottonABV1, Day(2024, 1, 31)) >>,
            [i \in 1..Len(bales) |-> MixingRow(UnitA, 10, CottonABV1, LotNo(i), bales[i])],
            << LotResult(LotNo(1), Variety(1), 400, 400, 350, 10, 100),
               LotResult(LotNo(2), Variety(2), 500, 300, 380, 5, 0) >>,
            << VarietyWeight(Variety(1), CottonName(1), 1),
               VarietyWeight(Variety(2), CottonName(2), 1) >>) :
        bales \in SeqsOf(BaleCounts, 1, MaxRows) }

\* --- one or two groups, their blend codes texts of every shape --------------
CodePrefixes == { << >>, << "A", "B", "C" >>, << "a", "b" >>,
                  << "2", "5", "_", "3", "1" >>, << "2", "_", "3", "1" >> }
CodeSeparators == { << >>, << "-" >>, << "_" >>, << " ", "/" >> }
CodeMarkers == { << >>, << "V", "2" >>, << "v", "2" >>, << "V", "1", "0" >>, << "V" >>, << "7" >> }

CodeSamples ==
    { p \o sep \o m : p \in CodePrefixes, sep \in CodeSeparators, m \in CodeMarkers }
    \cup { NullS, << " ", " " >> }

\* two sampled codes that are one text up to the digits after their final V
CodePairs ==
    { << p \o sep \o << "V", "2" >>, p \o sep \o << "V", "1", "0" >> >> :
        p \in CodePrefixes, sep \in CodeSeparators }

CodeStores ==
    { Store([i \in 1..Len(codes) |-> IssueRecord(UnitA, i, codes[i], Day(2024, 1, 10))],
            [i \in 1..Len(codes) |-> MixingRow(UnitA, i, codes[i], LotNo(1), 50)],
            << LotResult(LotNo(1), Variety(1), 400, 400, 350, 10, 100) >>,
            << VarietyWeight(Variety(1), CottonName(1), 1) >>) :
        codes \in SeqsOf(CodeSamples, 1, 1) \cup CodePairs }

\* --- one group, its issue date any day, absent or no date at all -------------
DateSamples ==
    { Day(y, m, d) : y \in { 2023, 2024 }, m \in { 1, 9, 12 }, d \in { 1, 7, 8, 14, 15, 28, 29, 31 } }
    \cup { NullDate, BadDate }

DateStores ==
    { Store(<< IssueRecord(UnitA, 10, CottonABV1, date) >>,
            << MixingRow(UnitA, 10, CottonABV1, LotNo(1), 50) >>,
            << LotResult(LotNo(1), Variety(1), 400, 400, 350, 10, 100) >>,
            << VarietyWeight(Variety(1), CottonName(1), 1) >>) :
        date \in DateSamples }

\* --- several groups, their dates, units, blend codes and lots varied -----------
\* the mixing numbers in the order their rows are stored
OrderMixNo(i) == IF i = 1 THEN 2 ELSE IF i = 2 THEN 1 ELSE i

\* what is stored for one mixing number: its issue records as << unit, cotton, date >>
\* and its chart rows as << unit, cotton, lot >>
OrderKinds ==
    { [issues |-> << << UnitA, CottonABV1, Day(2024, 1, 10) >> >>,
       rows |-> << << UnitA, CottonABV1, LotNo(1) >> >>],
      [issues |-> << << UnitA, CottonABV1, Day(2024, 1, 12) >> >>,
       rows |-> << << UnitA, CottonABV1, LotNo(2) >> >>],
      [issues |-> << << UnitA, CottonABV2, Day(2024, 1, 10) >> >>,
       rows |-> << << UnitA, CottonABV2, LotNo(1) >> >>],
      [issues |-> << << UnitA, CottonABV2, Day(2024, 2, 10) >> >>,
       rows |-> << << UnitA, CottonABV2, LotNo(2) >>, << UnitA, CottonABV2, LotNo(9) >> >>],
      [issues |-> << << UnitA, CottonAB, Day(2024, 1, 10) >> >>,
       rows |-> << << UnitA, CottonABV1, LotNo(2) >> >>],
      [issues |-> << << UnitA, CottonABV1, Day(2024, 1, 10) >>,
                     << UnitB, CottonABV1, Day(2024, 1, 12) >> >>,
       rows |-> << << UnitA, CottonABV1, LotNo(1) >>, << UnitB, CottonABV1, LotNo(2) >> >>] }

OrderIssues(kinds) ==
    Flatten([i \in 1..Len(kinds) |->
        [j \in 1..Len(kinds[i].issues) |->
            IssueRecord(kinds[i].issues[j][1], OrderMixNo(i), kinds[i].issues[j][2],
                        kinds[i].issues[j][3])]])

OrderRows(kinds) ==
    Flatten([i \in 1..Len(kinds) |->
        [j \in 1..Len(kinds[i].rows) |->
            MixingRow(kinds[i].rows[j][1], OrderMixNo(i), kinds[i].rows[j][2],
                      kinds[i].rows[j][3], 50 * i)]])

OrderStores ==
    { Store(OrderIssues(kinds), OrderRows(kinds),
            << LotResult(LotNo(1), Variety(1), 400, 400, 350, 10, 100),
               LotResult(LotNo(2), Variety(2), 500, 300, 380, 5, 0) >>,
            << VarietyWeight(Variety(1), CottonName(1), 1),
               VarietyWeight(Variety(2), CottonName(2), 1) >>) :
        kinds \in SeqsOf(OrderKinds, MaxEntries, MaxEntries) }

\* --- one period group, the lots, bales and dates of its mixings varied --------
\* the rows of one mixing as << lot number, bales >>
LocalProfiles ==
    { << << LotNo(1), 50 >> >>,
      << << LotNo(1), 0 >> >>,
      << << LotNo(1), 50 >>, << LotNo(2), 100 >> >>,
      << << LotNo(2), 100 >> >>,
      << << NullS, 50 >> >> }

\* how the mixings are dated: in the order of their numbers, against it, all on
\* one day, or in order with the rows of mixing 1 spelling the blend code in
\* lower case, which no issue record is stored under
LocalDatings == { "ascending", "descending", "same day", "unkeyed" }

LocalDay(i, dating) ==
    Day(2024, 1, IF dating = "descending" THEN 13 - i
                 ELSE IF dating = "same day" THEN 10
                 ELSE 8 + i)

LowerABV1 == << "a", "b", "_", "v", "1" >>

LocalRows(profiles, dating) ==
    Flatten([i \in 1..Len(profiles) |->
        [j \in 1..Len(profiles[i]) |->
            MixingRow(UnitA, i, IF dating = "unkeyed" /\ i = 1 THEN LowerABV1 ELSE CottonABV1,
                      profiles[i][j][1], profiles[i][j][2])]])

LocalStores ==
    { Store([i \in 1..Len(profiles) |-> IssueRecord(UnitA, i, CottonABV1, LocalDay(i, dating))],
            LocalRows(profiles, dating),
            << LotResult(LotNo(1), Variety(1), 400, 400, 350, 10, 100),
               LotResult(LotNo(2), Variety(2), 500, 300, 380, 5, 0) >>,
            << VarietyWeight(Variety(1), CottonName(1), 1),
               VarietyWeight(Variety(2), CottonName(2), 1) >>) :
        profiles \in SeqsOf(LocalProfiles, 2, MaxEntries), dating \in LocalDatings }

\* --- one mixing number and blend code, its rows of units with and without an --
\* --- issue record, the dates of the records varied ----------------------------
UnitC == << "C" >>

JoinDates == { Day(2024, 1, 10), Day(2024, 1, 12), NullDate, BadDate }

JoinStores ==
    { Store(<< IssueRecord(UnitA, 10, CottonABV1, dateA),
               IssueRecord(UnitB, 10, CottonABV1, dateB) >>,
            [i \in 1..Len(units) |-> MixingRow(units[i], 10, CottonABV1, LotNo(1), 50)],
            << LotResult(LotNo(1), Variety(1), 400, 400, 350, 10, 100) >>,
            << VarietyWeight(Variety(1), CottonName(1), 1) >>) :
        dateA \in JoinDates, dateB \in JoinDates,
        units \in SeqsOf({ UnitA, UnitB, UnitC }, 1, MaxRows) }

\* --- several mixings of one blend group, their units and lines texts with the --
\* --- delimiter of the signature or its placeholder -----------------------------
NoUnitText == << "_", "_", "N", "O", "_", "U", "N", "I", "T", "_", "_" >>

\* << unit, line >>
UnitLines ==
    { << UnitA, Line1 >>,
      << NullS, Line1 >>,
      << NoUnitText, Line1 >>,
      << UnitA, Line1 \o Bar \o Line1 >>,
      << UnitA \o Bar \o Line1, Line1 >> }

SignatureCotton(i) == IF i = 1 THEN CottonABV1 ELSE CottonABV2

SignatureStores ==
    { Store([i \in 1..Len(places) |->
                [IssueRecord(places[i][1], i, SignatureCotton(i), Day(2024, i, 10))
                    EXCEPT !.line = places[i][2]]],
            [i \in 1..Len(places) |->
                [MixingRow(places[i][1], i, SignatureCotton(i), LotNo(1 + (i % 2)), 50 * i)
                    EXCEPT !.line = places[i][2]]],
            << LotResult(LotNo(1), Variety(1), 400, 400, 350, 10, 100),
               LotResult(LotNo(2), Variety(2), 500, 300, 380, 5, 0) >>,
            << VarietyWeight(Variety(1), CottonName(1), 1),
               VarietyWeight(Variety(2), CottonName(2), 1) >>) :
        places \in SeqsOf(UnitLines, MaxEntries, MaxEntries) }

\* --- the mixings of one unit and blend code issued in one week, each with a ----
\* --- row of its own, without any row, or with a row of another unit only ------
RowKinds == { "own", "none", "other" }

RangeRows(kinds) ==
    Flatten([i \in 1..Len(kinds) |->
        IF kinds[i] = "none" THEN << >>
        ELSE << MixingRow(IF kinds[i] = "own" THEN UnitA ELSE UnitB, i, CottonABV1,
                          LotNo(1 + (i % 2)), 50 * i) >>])

RangeStores ==
    { Store([i \in 1..Len(kinds) |-> IssueRecord(UnitA, i, CottonABV1, Day(2024, 1, 8 + i))],
            RangeRows(kinds),
            << LotResult(LotNo(1), Variety(1), 400, 400, 350, 10, 100),
               LotResult(LotNo(2), Variety(2), 500, 300, 380, 5, 0) >>,
            << VarietyWeight(Variety(1), CottonName(1), 1),
               VarietyWeight(Variety(2), CottonName(2), 1) >>) :
        kinds \in SeqsOf(RowKinds, MaxEntries, MaxEntries) }

\* --- one mixing of one unit and blend code with several issue records, in one -
\* --- period or in two ----------------------------------------------------------
RepeatDates == { Day(2024, 1, 10), Day(2024, 1, 12), Day(2024, 2, 10) }

RepeatStores ==
    { Store([i \in 1..Len(dates) |-> IssueRecord(UnitA, 1, CottonABV1, dates[i])],
            [i \in 1..rows |-> MixingRow(UnitA, 1, CottonABV1, LotNo(i), 50 * i)],
            << LotResult(LotNo(1), Variety(1), 400, 400, 350, 10, 100),
               LotResult(LotNo(2), Variety(2), 500, 300, 380, 5, 0) >>,
            << VarietyWeight(Variety(1), CottonName(1), 1),
               VarietyWeight(Variety(2), CottonName(2), 1) >>) :
        dates \in SeqsOf(RepeatDates, 1, MaxRows), rows \in 1..MaxRows }

\* --- a fixed store, the request varied ----------------------------------------
RequestStore ==
    Store(<< IssueRecord(UnitA, 1, CottonABV1, Day(2024, 1, 10)),
             IssueRecord(UnitB, 2, CottonABV2, Day(2024, 2, 10)) >>,
          << MixingRow(UnitA, 1, CottonABV1, LotNo(1), 100),
             MixingRow(UnitA, 1, CottonABV1, LotNo(2), 50),
             MixingRow(UnitB, 2, CottonABV2, LotNo(2), 50) >>,
          << LotResult(LotNo(1), Variety(1), 400, 400, 350, 10, 100),
             LotResult(LotNo(2), Variety(2), 500, 300, 380, 5, 0) >>,
          << VarietyWeight(Variety(1), CottonName(1), 1),
             VarietyWeight(Variety(2), CottonName(2), 1) >>)

Quoted(text) == << "\"" >> \o text \o << "\"" >>

\* the text  ["<item>"]  and what JSON.parse makes of it
JsonArrayOf(item) == QText("array", << item >>, << "[" >> \o Quoted(item) \o << "]" >>)
\* a text that is no JSON
RawScalar(text) == QText("invalid", << >>, text)
\* a text that is JSON but no array
JsonScalar(text) == QText("scalar", << >>, text)
\* ?unit=  with nothing after the equals sign
EmptyParam == QText("invalid", << >>, << >>)

RequestTypes == { "<undefined>", "daily", "weekly", "monthly", "yearly", "" }

RequestRanges ==
    { << NullDate, NullDate >>,
      << Day(2024, 1, 1), Day(2024, 12, 31) >>,
      << Day(2024, 12, 31), Day(2024, 1, 1) >>,
      << BadDate, NullDate >>,
      << NullDate, BadDate >> }

RequestFilters ==
    { << NoParam, NoParam, NoParam >>,
      << RawScalar(UnitA), NoParam, NoParam >>,
      << JsonArrayOf(UnitA), NoParam, NoParam >>,
      << JsonArrayOf(<< >>), NoParam, NoParam >>,
      << JsonScalar(Quoted(UnitA)), NoParam, NoParam >>,
      << EmptyParam, NoParam, NoParam >>,
      << NoParam, RawScalar(CottonABV1), NoParam >>,
      << NoParam, JsonArrayOf(CottonABV1), NoParam >>,
      << NoParam, NoParam, RawScalar(CottonName(1)) >>,
      << NoParam, NoParam, JsonArrayOf(CottonName(1)) >> }

Requests ==
    { Request(rt, range[1], range[2], mixingFrom, filters[1], filters[2], filters[3]) :
        rt \in RequestTypes, range \in RequestRanges, mixingFrom \in { NullN, 1, NaN },
        filters \in RequestFilters }

NoReply == [status |-> 0, body |-> << >>, failed |-> {}]

\* no second request is in flight
NoWaiting == << >>

\* no POST /api/mixing-issues request is in flight
NoPost == [pc |-> "none", entries |-> << >>, payload |-> << >>, next |-> 0, status |-> 0]

\* nothing of a request was handled yet
Idle ==
    /\ pc = "start"
    /\ flt = NoFilters
    /\ issueData = << >>
    /\ mixingData = << >>
    /\ lotResults = << >>
    /\ groups = << >>
    /\ gi = 1
    /\ summaryEntries = << >>
    /\ fetchLog = << >>
    /\ failed = {}
    /\ status = 0
    /\ body = << >>
    /\ run = 1
    /\ firstBody = NoReply

Init ==
    /\ \/ db \in MetricStores /\ req \in { PlainRequest(rt) : rt \in ReportTypes }
       \/ db \in BlendStores /\ req \in { PlainRequest(rt) : rt \in ReportTypes }
       \/ db \in ContinuityStores /\ req \in { PlainRequest(rt) : rt \in ReportTypes }
       \/ db \in OrderStores /\ req \in { PlainRequest(rt) : rt \in ReportTypes }
       \/ db = RequestStore /\ req \in Requests
    /\ Idle
    /\ waiting = NoWaiting
    /\ post = NoPost

\* the same handler over stores whose bale counts need not be numbers
InitBales ==
    /\ db \in BaleStores
    /\ req \in { PlainRequest(rt) : rt \in ReportTypes }
    /\ Idle
    /\ waiting = NoWaiting
    /\ post = NoPost

Next ==
    \/ Validate
    \/ FetchIssues
    \/ FetchMixing
    \/ FetchLots
    \/ AggregateGroup
    \/ Respond

Spec == Init /\ [][Next]_vars

SpecBales == InitBales /\ [][Next]_vars

\* the same handler over stores whose blend codes are texts of every shape
InitCodes ==
    /\ db \in CodeStores
    /\ req \in { PlainRequest(rt) : rt \in ReportTypes }
    /\ Idle
    /\ waiting = NoWaiting
    /\ post = NoPost

SpecCodes == InitCodes /\ [][Next]_vars

\* the same handler over stores whose issue date is any day, absent or no date
InitDates ==
    /\ db \in DateStores
    /\ req \in { PlainRequest(rt) : rt \in ReportTypes }
    /\ Idle
    /\ waiting = NoWaiting
    /\ post = NoPost

SpecDates == InitDates /\ [][Next]_vars

InitLocal ==
    /\ db \in LocalStores
    /\ req \in { PlainRequest(rt) : rt \in ReportTypes }
    /\ Idle
    /\ waiting = NoWaiting
    /\ post = NoPost

SpecLocal == InitLocal /\ [][Next]_vars

InitJoin ==
    /\ db \in JoinStores
    /\ req \in { PlainRequest(rt) : rt \in ReportTypes }
    /\ Idle
    /\ waiting = NoWaiting
    /\ post = NoPost

SpecJoin == InitJoin /\ [][Next]_vars

InitSignature ==
    /\ db \in SignatureStores
    /\ req \in { PlainRequest(rt) : rt \in ReportTypes }
    /\ Idle
    /\ waiting = NoWaiting
    /\ post = NoPost

SpecSignature == InitSignature /\ [][Next]_vars

InitRange ==
    /\ db \in RangeStores
    /\ req \in { PlainRequest(rt) : rt \in ReportTypes }
    /\ Idle
    /\ waiting = NoWaiting
    /\ post = NoPost

SpecRange == InitRange /\ [][Next]_vars

InitRepeat ==
    /\ db \in RepeatStores
    /\ req \in { PlainRequest(rt) : rt \in ReportTypes }
    /\ Idle
    /\ waiting = NoWaiting
    /\ post = NoPost

SpecRepeat == InitRepeat /\ [][Next]_vars

\* the same request arrives again once the first was answered from collections
\* that could all be read; the handler's locals are declared anew as it runs
NextRequest ==
    /\ pc = "done"
    /\ run = 1
    /\ failed = {}
    /\ run' = 2
    /\ firstBody' = [status |-> status, body |-> body, failed |-> failed]
    /\ pc' = "start"
    /\ status' = 0
    /\ body' = << >>
    /\ fetchLog' = << >>
    /\ failed' = {}
    /\ UNCHANGED << db, req, flt, issueData, mixingData, lotResults, groups, gi, summaryEntries,
                    waiting, post >>

NextTwice == Next \/ NextRequest

SpecTwice == Init /\ [][NextTwice]_vars

\* --- two requests in flight ---------------------------------------------------
\* what the handler declares per invocation: the query, its position and every
\* const and let of its body, with the reply it sent
Locals ==
    [req |-> req, pc |-> pc, flt |-> flt, issueData |-> issueData, mixingData |-> mixingData,
     lotResults |-> lotResults, groups |-> groups, gi |-> gi, summaryEntries |-> summaryEntries,
     failed |-> failed, status |-> status, body |-> body]

\* the locals of a request that has just arrived
Arrived(query) ==
    [req |-> query, pc |-> "start", flt |-> NoFilters, issueData |-> << >>, mixingData |-> << >>,
     lotResults |-> << >>, groups |-> << >>, gi |-> 1, summaryEntries |-> << >>,
     failed |-> {}, status |-> 0, body |-> << >>]

\* summaryEntries were one array of the module, which a resumed request finds as
\* the other request left it
EntriesShared(resumed) == summaryEntries

\* const summaryEntries = [] inside the handler: a resumed request finds its own
EntriesResumed(resumed) == resumed.summaryEntries

\* the event loop leaves the request that runs at an await and resumes the other
\* one; the record source sees the reads of both in the order they are made
Switch ==
    /\ waiting # NoWaiting
    /\ waiting' = Locals
    /\ run' = 3 - run
    /\ req' = waiting.req
    /\ pc' = waiting.pc
    /\ flt' = waiting.flt
    /\ issueData' = waiting.issueData
    /\ mixingData' = waiting.mixingData
    /\ lotResults' = waiting.lotResults
    /\ groups' = waiting.groups
    /\ gi' = waiting.gi
    /\ summaryEntries' = EntriesResumed(waiting)
    /\ failed' = waiting.failed
    /\ status' = waiting.status
    /\ body' = waiting.body
    /\ UNCHANGED << db, fetchLog, firstBody, post >>

PairRequests ==
    { Request("daily", Day(2024, 1, 1), Day(2024, 12, 31), 1, JsonArrayOf(UnitA), NoParam, NoParam),
      PlainRequest("weekly"),
      PlainRequest("yearly") }

InitPair ==
    /\ db = RequestStore
    /\ req \in PairRequests
    /\ Idle
    /\ waiting \in { Arrived(query) : query \in PairRequests }
    /\ post = NoPost

NextPair == Next \/ Switch

SpecPair == InitPair /\ [][NextPair]_vars

-----------------------------------------------------------------------------
(* POST /api/mixing-issues (lines 2580-2619): the stored issue records of   *)
(* every mixing number and blend code of the payload are deleted, one       *)
(* request to the record source per entry, then the payload is inserted     *)

\* the request as it arrives, with req.body.entries
Posted(entries) == [NoPost EXCEPT !.pc = "arrived", !.entries = entries]

\* entry?.mixing_no && entry?.cotton && entry.issue_date
EntryKept(entry) ==
    /\ entry.mixing_no # NullN /\ entry.mixing_no # 0
    /\ Truthy(entry.cotton)
    /\ HasDate(entry.issue_date)

\* entries.filter(...).map(...): the kept entries, unit and line null when absent
PayloadOf(entries) ==
    LET kept == SelectSeq(entries, EntryKept)
    IN [i \in 1..Len(kept) |->
          [mixing_no |-> kept[i].mixing_no,
           unit |-> OrElse(kept[i].unit, NullS),
           line |-> OrElse(kept[i].line, NullS),
           cotton |-> kept[i].cotton,
           issue_date |-> kept[i].issue_date]]

\* .delete().eq("mixing_no", entry.mixing_no).eq("cotton", entry.cotton)
DeleteMatching(table, entry) ==
    SelectSeq(table, LAMBDA r : ~(r.mixing_no = entry.mixing_no /\ r.cotton = entry.cotton))

\* lines 2582-2596: the payload is built, an empty one is answered with 400
AcceptEntries ==
    /\ post.pc = "arrived"
    /\ post' = IF PayloadOf(post.entries) = << >>
               THEN [post EXCEPT !.pc = "done", !.status = 400]
               ELSE [post EXCEPT !.pc = "deleting", !.payload = PayloadOf(post.entries), !.next = 1]
    /\ UNCHANGED << db, req, pc, flt, issueData, mixingData, lotResults, groups, gi,
                    summaryEntries, fetchLog, failed, status, body, run, firstBody, waiting >>

\* lines 2598-2607: one pass of the delete loop; a delete the record source
\* refuses deletes nothing and is thrown, the catch answering 500
DeleteExisting ==
    /\ post.pc = "deleting"
    /\ \E ok \in BOOLEAN :
          IF ok
          THEN /\ db' = [db EXCEPT !.mixing_issue = DeleteMatching(@, post.payload[post.next])]
               /\ post' = [post EXCEPT !.next = @ + 1,
                                       !.pc = IF post.next = Len(post.payload)
                                              THEN "inserting" ELSE "deleting"]
          ELSE /\ post' = [post EXCEPT !.pc = "done", !.status = 500]
               /\ UNCHANGED db
    /\ UNCHANGED << req, pc, flt, issueData, mixingData, lotResults, groups, gi,
                    summaryEntries, fetchLog, failed, status, body, run, firstBody, waiting >>

\* lines 2609-2618: the insert of the whole payload, then { success: true }; an
\* insert the record source refuses inserts nothing and is answered with 500
InsertEntries ==
    /\ post.pc = "inserting"
    /\ \E ok \in BOOLEAN :
          IF ok
          THEN /\ db' = [db EXCEPT !.mixing_issue = @ \o post.payload]
               /\ post' = [post EXCEPT !.pc = "done", !.status = 200]
          ELSE /\ post' = [post EXCEPT !.pc = "done", !.status = 500]
               /\ UNCHANGED db
    /\ UNCHANGED << req, pc, flt, issueData, mixingData, lotResults, groups, gi,
                    summaryEntries, fetchLog, failed, status, body, run, firstBody, waiting >>

\* the store the entries are posted to: two issue records of mixing 1 and AB_V1,
\* one of mixing 2 and AB-V2, one of mixing 1 and AB-V2
ReplaceStore ==
    [RequestStore EXCEPT !.mixing_issue =
        @ \o << IssueRecord(UnitB, 1, CottonABV1, Day(2024, 1, 12)),
                IssueRecord(UnitA, 1, CottonABV2, Day(2024, 1, 20)) >>]

\* the entries a payload is made of: three that are kept, of which two replace
\* stored records, and three that the filter drops
PostEntries ==
    { IssueRecord(UnitA, 1, CottonABV1, Day(2024, 2, 1)),
      IssueRecord(UnitB, 2, CottonABV2, Day(2024, 2, 2)),
      [IssueRecord(Absent, 3, CottonAB, Day(2024, 2, 3)) EXCEPT !.line = Absent],
      IssueRecord(UnitA, 1, NullS, Day(2024, 2, 1)),
      IssueRecord(UnitA, 0, CottonABV1, Day(2024, 2, 1)),
      IssueRecord(UnitA, 1, CottonABV1, NullDate) }

InitReplace ==
    /\ db = ReplaceStore
    /\ req = PlainRequest("daily")
    /\ Idle
    /\ waiting = NoWaiting
    /\ post \in { Posted(entries) : entries \in SeqsOf(PostEntries, 1, MaxRows) }

NextReplace == AcceptEntries \/ DeleteExisting \/ InsertEntries

SpecReplace == InitReplace /\ [][NextReplace]_vars

-----------------------------------------------------------------------------
(* Properties of the summary *)

Done == pc = "done"
Succeeded == pc = "done" /\ status = 200

\* the groups that produce an entry, in the order the entries are pushed
AggregatedGroups == SelectSeq(groups, LAMBDA g : GroupRows(g, reportType) # << >>)

\* the rows behind the i-th entry
RowsOfEntry(i) == GroupRows(AggregatedGroups[i], reportType)

\* the bales a row counts with, and the value a row brings for a metric: that of
\* the stored lot result of its lot when there is one and it is a number, else 0
BalesOf(r) == IF IsNum(r.issue_bale) THEN r.issue_bale ELSE 0
StoredLots(r) == { i \in 1..Len(db.lot_results) : db.lot_results[i].lot_no = r.lot_no }
ValueOf(r, k) ==
    IF StoredLots(r) = {} THEN 0
    ELSE LET lot == db.lot_results[CHOOSE i \in StoredLots(r) : \A j \in StoredLots(r) : i <= j]
         IN IF IsNum(lot.m[k]) THEN lot.m[k] ELSE 0

SumBales(rows) == SeqSum([i \in 1..Len(rows) |-> BalesOf(rows[i])])
SumWeighted(rows, k) == SeqSum([i \in 1..Len(rows) |-> BalesOf(rows[i]) * ValueOf(rows[i], k)])

\* the metric fields of a response entry are those of the entry aggregated for it
ReportedAsAggregated ==
    Succeeded =>
        \A j \in 1..Len(body) : \E i \in 1..Len(summaryEntries) :
            \A k \in MetricKeys \cup { "total_bales", "min_mic", "min_mic_percent", "unit",
                                       "line", "cotton", "mixing_no" } :
                body[j][k] = summaryEntries[i][k]

\* C1: in every group with total_bales > 0, of any report type, each of the ten
\* metrics is the sum over all rows of the group of bales times value, divided by
\* total_bales and rounded to two decimals; a missing or non-numeric value and a
\* row whose lot has no lot result bring 0 while their bales count in total_bales.
C1_WeightedMetric ==
    /\ \A i \in 1..Len(summaryEntries) :
         LET rows == RowsOfEntry(i)
         IN /\ summaryEntries[i].total_bales = SumBales(rows)
            /\ SumBales(rows) > 0 =>
                 \A k \in MetricKeys :
                     summaryEntries[i][k] = RoundDiv(SumWeighted(rows, k), SumBales(rows))
    /\ ReportedAsAggregated

\* bales [100, 50] with mic [4.0, 5.0] reported as total_bales 150 and mic 4.33
C1_Witness ==
    /\ Succeeded
    /\ Len(db.mixing_chart) = 2
    /\ db.mixing_chart[1].issue_bale = 100 /\ db.mixing_chart[2].issue_bale = 50
    /\ ValueOf(db.mixing_chart[1], "mic") = 400 /\ ValueOf(db.mixing_chart[2], "mic") = 500
    /\ Len(body) = 1
    /\ body[1].total_bales = 150
    /\ body[1].mic = 433

SuppliedMinMic(rows) ==
    { db.lot_results[l].min_mic :
        l \in { j \in 1..Len(db.lot_results) :
                  /\ IsNum(db.lot_results[j].min_mic)
                  /\ \E i \in 1..Len(rows) : rows[i].lot_no = db.lot_results[j].lot_no } }

PositiveNames(i) ==
    LET contribs == CottonContributions(RowsOfEntry(i), db.lot_results, db.mixing_code)
    IN { contribs[n][1] : n \in { m \in 1..Len(contribs) : contribs[m][2] > 0 } }

\* the percentages of blend_percent added up, in tenths of a percent
PercentSum(e) ==
    IF reportType = "daily" THEN 10 * SeqSum(e.blend_percent)
    ELSE SeqSum([n \in 1..Len(e.blend_percent) |-> e.blend_percent[n][2]])

WithinOneOfHundred(e) == PercentSum(e) >= 990 /\ PercentSum(e) <= 1010

\* the blend of a response entry is that of the entry aggregated for it
BlendAsAggregated ==
    Succeeded =>
        \A j \in 1..Len(body) : \E i \in 1..Len(summaryEntries) :
            /\ body[j].blend_percent = summaryEntries[i].blend_percent
            /\ body[j].mixing_no = summaryEntries[i].mixing_no
            /\ body[j].cotton = summaryEntries[i].cotton
            /\ body[j].issue_date = summaryEntries[i].issue_date

C3_WitnessPeriod ==
    /\ Succeeded
    /\ reportType # "daily"
    /\ Len(body) = 1
    /\ Cardinality(PositiveNames(1)) = 3
    /\ PercentSum(body[1]) = 999

\* the signature group and the issue timestamp of a response entry
BodySignature(e) == SignatureOf(e.unit, e.line, parseCottonVersion(e.cotton).groupKey)
BodyTimestamp(e) == IF HasDate(e.issue_date) THEN GetTime(e.issue_date) ELSE NullN

\* a, b, c are entries of one signature group, their timestamps strictly
\* increasing, b the last entry of the group before c
ThreeInARow(a, b, c) ==
    /\ BodySignature(a) = BodySignature(b) /\ BodySignature(b) = BodySignature(c)
    /\ BodyTimestamp(a) >= 0
    /\ BodyTimestamp(a) < BodyTimestamp(b)
    /\ BodyTimestamp(b) < BodyTimestamp(c)
    /\ \A j \in 1..Len(body) :
          (BodySignature(body[j]) = BodySignature(c) /\ BodyTimestamp(body[j]) < BodyTimestamp(c))
              => BodyTimestamp(body[j]) <= BodyTimestamp(b)

\* C4: of three entries of one signature group with strictly increasing issue
\* timestamps, the third's previous_mixing_no is the second's mixing range, never
\* the first's nor null, whatever the version numbers of the entries are.
C4_PreviousMixing ==
    Succeeded =>
        \A a, b, c \in 1..Len(body) :
            ThreeInARow(body[a], body[b], body[c]) =>
                body[c].previous_mixing_no = body[b].mixing_no

\* both runs read every collection they asked for
BothRunsRead == run = 2 /\ pc = "done" /\ failed = {} /\ firstBody.failed = {}

\* C5: the aggregation run twice over the same request parameters and the same
\* stored collections gives the same output both times: the same entries with the
\* same field values in the same order.
C5_SameOutputTwice ==
    BothRunsRead => (status = firstBody.status /\ body = firstBody.body)

\* a second run that answered with several entries
C5_Witness ==
    /\ BothRunsRead
    /\ status = 200
    /\ Len(body) >= 2
    /\ body = firstBody.body

\* nothing was read and no group was built or aggregated
NothingFetched == fetchLog = << >> /\ groups = << >> /\ summaryEntries = << >>

\* C6: a request whose report_type is present and none of daily, weekly, monthly
\* is answered with a validation error before any record is read or any group is
\* aggregated; a request without report_type is handled as a daily one.
C6_ReportType ==
    /\ (req.report_type # "<undefined>" /\ req.report_type \notin ReportTypes) =>
          /\ NothingFetched
          /\ pc = "done" => (status = 400 /\ body = << >>)
    /\ req.report_type = "<undefined>" =>
          /\ status # 400
          /\ pc = "aggregate" => groups = DailyGroups(mixingData)
          /\ Succeeded /\ summaryEntries # << >> =>
                body = FinalSummary(summaryEntries, "daily", flt.mixing)

\* report_type=yearly answered with 400 and nothing read
C6_Witness ==
    /\ pc = "done"
    /\ req.report_type = "yearly"
    /\ status = 400
    /\ NothingFetched

\* a request without report_type answered with daily entries
C6_WitnessDefault ==
    /\ Succeeded
    /\ req.report_type = "<undefined>"
    /\ Len(body) >= 1
    /\ \A j \in 1..Len(body) : body[j].issue_date.k = "ok"

\* the date range or the mixing range of the request is malformed
MalformedRange ==
    \/ validateDateRange(req.from_date, req.to_date) # ""
    \/ validateMixingRange(req.mixing_from, req.mixing_to) # ""

\* C7: a request with a malformed date range (an unparseable from_date or to_date,
\* or from_date after to_date) or a non-numeric mixing-range bound is answered
\* with a validation error before any record is read or aggregated.
C7_RangeValidated ==
    MalformedRange =>
        /\ NothingFetched
        /\ pc = "done" => status = 400

\* C8: when a read of the record source fails (issues, mixing rows, lot results or
\* variety weights, for any report type), the request ends with an error and
\* returns no summary entries.
C8_ReadFailureAborts ==
    (pc = "done" /\ failed # {}) => (status = 500 /\ body = << >>)

\* the request can be answered: its report_type is valid and every read succeeded
Answerable == ReportTypeValid(reportType) /\ failed = {}

\* C9: data anomalies never make a request fail: whatever metric values are
\* missing or non-numeric, whatever varieties are unmapped and whatever rows
\* refer to lots without a lot result (even when no lot result exists), a request
\* whose reads succeed ends with a summary and not with an error.
C9_AnomaliesNotFatal ==
    (pc = "done" /\ Answerable) => status = 200

\* a summary of a group with a row whose lot has no result and a row whose lot
\* has a non-numeric mic and an unmapped variety
C9_Witness ==
    /\ Succeeded
    /\ Len(body) = 1
    /\ body[1].total_bales = 150
    /\ \E i \in 1..Len(db.mixing_chart) : StoredLots(db.mixing_chart[i]) = {}
    /\ \E i \in 1..Len(db.mixing_chart) : \E l \in StoredLots(db.mixing_chart[i]) :
          /\ db.lot_results[l].m.mic = NaN
          /\ MixingCodeQuery(db.mixing_code, << db.lot_results[l].variety >>) = << >>

FilterParams == { "unit", "line", "cotton", "mixing" }

\* a parameter given as one non-empty value that is no JSON array
NonEmptyScalar(value) == value.json \in { "invalid", "scalar" } /\ value.text # << >>

\* C10: a summary filter parameter that is no valid JSON, or JSON but no array, is
\* taken as one scalar filter value: a non-empty scalar gives a filter set of
\* exactly one element, never an empty one.
C10_ScalarFallback ==
    (pc # "start" /\ status # 400) =>
        \A p \in FilterParams : NonEmptyScalar(req[p]) => Len(flt[p]) = 1

-----------------------------------------------------------------------------
(* The summary of a request as a value: the handler's steps composed, every read
   succeeding *)

\* the filters the handler parses from the query
ParsedFilters(query) ==
    [unit |-> parseArray(query.unit), line |-> parseArray(query.line),
     cotton |-> parseArray(query.cotton), mixing |-> parseArray(query.mixing),
     effectiveCotton |-> << >>]

\* the entry pushed for one group whose rows are not empty
EntryAlone(group, issues, lots, codeTable, rt) ==
    LET rows == GroupRows(group, rt)
        varieties == UniqueVarieties(rows, lots)
        codes == MixingCodeQuery(codeTable, varieties)
        blend == IF varieties = << >> \/ codes = << >> THEN NoBlend
                 ELSE IF rt = "daily" THEN DailyBlend(rows, lots, codes)
                 ELSE PeriodBlend(rows, lots, codes)
    IN IF rt = "daily" THEN DailyEntry(group, issues, lots, blend)
       ELSE PeriodEntry(group, issues, lots, blend, rt)

\* the entries pushed for the groups, in their order
EntriesAlone(gs, issues, lots, codeTable, rt) ==
    LET kept == SelectSeq(gs, LAMBDA g : GroupRows(g, rt) # << >>)
    IN [i \in 1..Len(kept) |-> EntryAlone(kept[i], issues, lots, codeTable, rt)]

\* what a request with the filters f is answered with over the store
SummaryAlone(store, query, f) ==
    LET rt == ReportTypeOf(query)
        raw == IssueQuery(store.mixing_issue, query, f)
        eff == EffectiveCottonFilters(f.cotton, raw)
        issues == FilterIssuesByCotton(raw, eff)
        mixing == MixingQuery(store.mixing_chart, issues, f, eff)
        lots == LotQuery(store.lot_results, mixing)
        gs == IF rt = "daily" THEN DailyGroups(mixing)
              ELSE PeriodGroups(issues, mixing, [f EXCEPT !.effectiveCotton = eff], rt)
    IN IF issues = << >> \/ mixing = << >> THEN << >>
       ELSE FinalSummary(EntriesAlone(gs, issues, lots, store.mixing_code, rt), rt, f.mixing)

\* the handler's answer, when every read succeeded, is the composed summary
AnswerIsSummaryAlone ==
    (Succeeded /\ failed = {}) => body = SummaryAlone(db, req, ParsedFilters(req))

\* the summary the request would get had it sent no mixing filter
SummaryWithoutMixingFilter ==
    SummaryAlone(db, req, [ParsedFilters(req) EXCEPT !.mixing = << >>])

\* C11: on a weekly or monthly report a mixing filter selects exactly the entries
\* whose blend-name signature matches it and is never applied to the mixing
\* number: the answer is the unfiltered summary's entries with a matching name,
\* whatever their mixing numbers are.
C11_MixingFilter ==
    (Succeeded /\ failed = {} /\ reportType \in { "weekly", "monthly" } /\ flt.mixing # << >>) =>
        body = SelectSeq(SummaryWithoutMixingFilter,
                         LAMBDA row : MatchesMixingFilter(row, flt.mixing))

-----------------------------------------------------------------------------
(* The order of the answer *)

\* a date or period label as the number YYYYMMDD (the week or 0 in place of the
\* day for a period label); NullN for no date
DateOrdinal(x) ==
    IF x.k \in { "ok", "week", "month" } THEN (x.y * 100 + x.m) * 100 + x.d ELSE NullN

\* where among the pushed entries the entry of an answered row was created
CreationIndex(row) ==
    LET same == { p \in 1..Len(summaryEntries) :
                     /\ summaryEntries[p].unit = row.unit
                     /\ summaryEntries[p].line = row.line
                     /\ summaryEntries[p].cotton = row.cotton
                     /\ summaryEntries[p].mixing_no = row.mixing_no
                     /\ summaryEntries[p].issue_date = row.issue_date }
    IN IF same = {} THEN 0 ELSE CHOOSE p \in same : \A q \in same : p <= q

C12_WitnessPeriod ==
    /\ Succeeded
    /\ reportType = "weekly"
    /\ \E i, j \in 1..Len(body) : i < j /\ body[i].issue_date = body[j].issue_date
    /\ \E i, j \in 1..Len(body) : i < j /\ CreationIndex(body[j]) < CreationIndex(body[i])

-----------------------------------------------------------------------------
(* The bale total of a group *)

\* C13: the total_bales of every group, aggregated and answered, is the sum of
\* issue_bale over all rows of the group, a missing or non-numeric issue_bale
\* counting as 0, and so is always a number
C13_TotalBales ==
    /\ \A i \in 1..Len(summaryEntries) :
         /\ IsNum(summaryEntries[i].total_bales)
         /\ summaryEntries[i].total_bales = SumBales(RowsOfEntry(i))
    /\ Succeeded => \A j \in 1..Len(body) : IsNum(body[j].total_bales)

\* short of a non-numeric text, total_bales is that sum: null counts as 0
C13_NumericOrMissing ==
    \A i \in 1..Len(summaryEntries) :
        (\A r \in 1..Len(RowsOfEntry(i)) : RowsOfEntry(i)[r].issue_bale # NaN) =>
            summaryEntries[i].total_bales = SumBales(RowsOfEntry(i))

-----------------------------------------------------------------------------
(* The group key and version of a blend code *)

\* how many digits a text ends with
RECURSIVE DigitTail(_)
DigitTail(u) ==
    IF u # << >> /\ IsDigit(u[Len(u)]) THEN 1 + DigitTail(SubSeq(u, 1, Len(u) - 1)) ELSE 0

\* the text ends with V and at least one digit
EndsWithMarker(u) ==
    /\ DigitTail(u) >= 1
    /\ Len(u) > DigitTail(u)
    /\ u[Len(u) - DigitTail(u)] = "V"

\* what stands before the V, and the digits after it
BeforeMarker(u) == SubSeq(u, 1, Len(u) - DigitTail(u) - 1)
MarkerDigits(u) == SubSeq(u, Len(u) - DigitTail(u) + 1, Len(u))

\* <2 digits>_<2 digits>_ stands before the V
TwoByTwo(u) ==
    /\ Len(BeforeMarker(u)) = 6
    /\ IsDigit(u[1]) /\ IsDigit(u[2]) /\ u[3] = "_"
    /\ IsDigit(u[4]) /\ IsDigit(u[5]) /\ u[6] = "_"

\* << group key, version >> of a code by the four rules in their order, given the
\* key of a code that has nothing but separators before its marker
KeyAndVersion(code, markerOnlyKey) ==
    IF code = NullS \/ Trim(code) = << >> THEN << NoVersion.groupKey, NullN >>
    ELSE LET u == ToUpper(Trim(code))
         IN IF EndsWithMarker(u) /\ TwoByTwo(u)
            THEN << SubSeq(u, 1, 5), ParseInt(MarkerDigits(u)) >>
            ELSE IF EndsWithMarker(u)
            THEN << IF StripSeps(BeforeMarker(u)) # << >> THEN StripSeps(BeforeMarker(u))
                    ELSE markerOnlyKey,
                    ParseInt(MarkerDigits(u)) >>
            ELSE << u, NullN >>

\* the texts differ, and only in the digits after a final V
OnlyVersionDigitsDiffer(a, b) ==
    /\ a # NullS /\ b # NullS /\ a # b
    /\ EndsWithMarker(ToUpper(a)) /\ EndsWithMarker(ToUpper(b))
    /\ SubSeq(a, 1, Len(a) - DigitTail(a)) = SubSeq(b, 1, Len(b) - DigitTail(b))

EntryKeyAndVersion(e) == << EntryGroupKey(e), e._versionNumber >>

\* C14 as claimed: a code with nothing before its marker has the marker-stripped
\* text as its key, and any two codes that differ only in their version digits
\* get the same group key
C14_AsClaimed ==
    /\ \A i \in 1..Len(summaryEntries) :
         EntryKeyAndVersion(summaryEntries[i]) = KeyAndVersion(summaryEntries[i].cotton, << >>)
    /\ \A i, j \in 1..Len(summaryEntries) :
         OnlyVersionDigitsDiffer(summaryEntries[i].cotton, summaryEntries[j].cotton) =>
             EntryGroupKey(summaryEntries[i]) = EntryGroupKey(summaryEntries[j])

\* C14: the group key and version of the code of every entry follow the four rules
\* in their order: no code, or a blank one, gives "__NO_VERSION__" and no version;
\* <2 digits>_<2 digits>_V<digits> gives "<first>_<second>" and the integer; a final
\* V<digits> gives what stands before it without its trailing separators, or the
\* whole trimmed uppercased code when nothing else stands before it, and the integer;
\* any other code gives itself, trimmed and uppercased, and no version.  "25_31_V2"
\* gives ("25_31", 2), "ABC-V10" gives ("ABC", 10), and two codes that differ only
\* in their version digits and have more than separators before the marker get the
\* same group key.
C14_VersionRules ==
    /\ \A i \in 1..Len(summaryEntries) :
         LET code == summaryEntries[i].cotton
             got == EntryKeyAndVersion(summaryEntries[i])
         IN /\ got = KeyAndVersion(code, IF code = NullS THEN << >> ELSE ToUpper(Trim(code)))
            /\ code = << "2", "5", "_", "3", "1", "_", "V", "2" >> =>
                   got = << << "2", "5", "_", "3", "1" >>, 2 >>
            /\ code = << "A", "B", "C", "-", "V", "1", "0" >> => got = << << "A", "B", "C" >>, 10 >>
    /\ \A i, j \in 1..Len(summaryEntries) :
         LET a == summaryEntries[i].cotton
             b == summaryEntries[j].cotton
         IN (OnlyVersionDigitsDiffer(a, b) /\ StripSeps(BeforeMarker(ToUpper(Trim(a)))) # << >>) =>
                EntryGroupKey(summaryEntries[i]) = EntryGroupKey(summaryEntries[j])

\* two entries whose codes differ only in their version digits, one of them ABC-V10
C14_Witness ==
    /\ Len(summaryEntries) = 2
    /\ summaryEntries[2].cotton = << "A", "B", "C", "-", "V", "1", "0" >>
    /\ OnlyVersionDigitsDiffer(summaryEntries[1].cotton, summaryEntries[2].cotton)
    /\ EntryKeyAndVersion(summaryEntries[1]) = << << "A", "B", "C" >>, 2 >>

\* an entry whose code is a marker and nothing else
C14_WitnessMarkerOnly ==
    \E i \in 1..Len(summaryEntries) :
        /\ summaryEntries[i].cotton = << "V", "2" >>
        /\ EntryKeyAndVersion(summaryEntries[i]) = << << "V", "2" >>, 2 >>

-----------------------------------------------------------------------------
(* The period of a date *)

TwoDigits(n) == << DigitChars[(n \div 10) + 1], DigitChars[(n % 10) + 1] >>
FourDigits(n) == TwoDigits(n \div 100) \o TwoDigits(n % 100)

\* YYYY-MM of a day
YearMonth(date) == FourDigits(date.y) \o << "-" >> \o TwoDigits(date.m)

\* the least n with 7 n >= the day of the month
WeekOfMonth(date) == CHOOSE n \in 1..5 : 7 * n >= date.d /\ 7 * (n - 1) < date.d

NoDescriptor == [label |-> NullDate, sortKey |-> NullDate, sortValue |-> NullN]

\* the descriptor of a stored day is the claimed one for the report type
DescriptorAsClaimed(date, pd, rt) ==
    CASE rt = "daily" ->
           /\ RenderDate(pd.label) = YearMonth(date) \o << "-" >> \o TwoDigits(date.d)
           /\ pd.sortKey = pd.label
      [] rt = "monthly" ->
           /\ RenderDate(pd.label) = YearMonth(date)
           /\ pd.sortKey = pd.label
           /\ pd.sortValue = date.y * 100 + date.m
      [] rt = "weekly" ->
           /\ RenderDate(pd.label) = YearMonth(date) \o << "-", "W" >> \o NumStr(WeekOfMonth(date))
           /\ RenderDate(pd.sortKey) = YearMonth(date) \o << "-" >> \o TwoDigits(WeekOfMonth(date))
           /\ pd.sortValue = (date.y * 100 + date.m) * 100 + WeekOfMonth(date)

-----------------------------------------------------------------------------
(* Requests in flight together *)

\* a request that was answered from reads that all succeeded has the reply it
\* has when it is served alone
RepliedAsAlone(r) ==
    (r.pc = "done" /\ r.failed = {}) =>
        IF ~ReportTypeValid(ReportTypeOf(r.req))
        THEN r.status = 400
        ELSE /\ r.status = 200
             /\ r.body = SummaryAlone(db, r.req, ParsedFilters(r.req))

\* C16: of two summary requests in flight over one unchanging store, their steps
\* interleaved at every read, each returns exactly what it returns alone
C16_NoSharedState ==
    waiting # NoWaiting => (RepliedAsAlone(Locals) /\ RepliedAsAlone(waiting))

\* a daily and a weekly request both answered with rows, each having read
\* mixing_issue before either read mixing_chart
C16_Witness ==
    /\ waiting # NoWaiting
    /\ pc = "done" /\ status = 200 /\ failed = {} /\ body # << >>
    /\ waiting.pc = "done" /\ waiting.status = 200 /\ waiting.failed = {} /\ waiting.body # << >>
    /\ ReportTypeOf(req) = "daily" /\ ReportTypeOf(waiting.req) = "weekly"
    /\ body # waiting.body
    /\ Len(fetchLog) >= 4
    /\ fetchLog[1] = "mixing_issue" /\ fetchLog[2] = "mixing_issue"
    /\ fetchLog[3] = "mixing_chart" /\ fetchLog[4] = "mixing_chart"

-----------------------------------------------------------------------------
(* The rows of one entry *)

\* the period an issue date falls in for the report type asked, as text
PeriodOf(date) == RenderDate(buildPeriodDescriptor(date, reportType).label)

\* C17: the rows aggregated into one entry share one unit, one line and one blend
\* code, and one mixing number in a daily report, one period (by the stored issue
\* of each row) in a weekly or monthly one; rows of different units or lines are
\* never in one entry
C17_OneGroupPerEntry ==
    \A i \in 1..Len(summaryEntries) :
        \A a, b \in 1..Len(RowsOfEntry(i)) :
            LET ra == RowsOfEntry(i)[a]
                rb == RowsOfEntry(i)[b]
            IN /\ ra.unit = rb.unit
               /\ ra.line = rb.line
               /\ ra.cotton = rb.cotton
               /\ reportType = "daily" => ra.mixing_no = rb.mixing_no
               /\ reportType # "daily" =>
                      PeriodOf(IssueDateLookup(db.mixing_issue, LookupKey(ra)))
                          = PeriodOf(IssueDateLookup(db.mixing_issue, LookupKey(rb)))

\* the weekly and monthly entries do keep units, lines and blend codes apart
C17_PeriodEntries ==
    reportType # "daily" => C17_OneGroupPerEntry

-----------------------------------------------------------------------------
(* The order continuity goes through a signature group *)

\* the three keys of an entry: << 0, value >> for a value, << 1, 0 >> for none, so
\* that an entry without a valid timestamp, version or mixing number comes last
TimestampKey(e) ==
    IF IsNum(IssueTimestamp(e)) THEN << 0, IssueTimestamp(e) >> ELSE << 1, 0 >>
VersionKey(e) == IF IsNum(e._versionNumber) THEN << 0, e._versionNumber >> ELSE << 1, 0 >>
MixingKey(e) == IF IsNum(MaxMixNo(e)) THEN << 0, MaxMixNo(e) >> ELSE << 1, 0 >>

PairLess(p, q) == p[1] < q[1] \/ (p[1] = q[1] /\ p[2] < q[2])

\* entry a may not come after entry b
ComesBefore(a, b) ==
    \/ PairLess(TimestampKey(a), TimestampKey(b))
    \/ /\ TimestampKey(a) = TimestampKey(b)
       /\ \/ PairLess(VersionKey(a), VersionKey(b))
          \/ VersionKey(a) = VersionKey(b) /\ PairLess(MixingKey(a), MixingKey(b))

\* the entries pushed so far, gone through in the order continuity takes them
InContinuityOrder ==
    \A p \in 1..Len(summaryEntries) :
        LET records == ContinuityRecords(summaryEntries, Signature(summaryEntries[p]))
        IN \A i, j \in 1..Len(records) :
               i < j => ~ComesBefore(summaryEntries[records[j]], summaryEntries[records[i]])

\* C18: within each signature group continuity goes through the entries by
\* ascending issue timestamp, entries without a valid timestamp (no date, no
\* parseable date, a weekly label) last, then by ascending version number, none
\* last, then by ascending largest mixing number, none last; the order the entries
\* were created in decides only among entries equal in all three
C18_ContinuityOrder ==
    pc \in { "aggregate", "done" } => InContinuityOrder

\* in the daily and monthly reports, whose dates all parse, the order is the claimed one
C18_DatesThatParse ==
    (pc \in { "aggregate", "done" } /\ reportType # "weekly") => InContinuityOrder

-----------------------------------------------------------------------------
(* The bale change-over of a daily entry *)

\* the bales of one lot among rows, every row counted
BalesOfLot(rows, lotNo) ==
    SeqSum([i \in 1..Len(rows) |-> IF rows[i].lot_no = lotNo THEN BalesOf(rows[i]) ELSE 0])

LotsOf(rows) == { rows[i].lot_no : i \in 1..Len(rows) }

\* the sum over the lots of either entry of the difference of their bales
RECURSIVE DifferenceOver(_, _, _)
DifferenceOver(lots, previousRows, currentRows) ==
    IF lots = {} THEN 0
    ELSE LET lot == CHOOSE l \in lots : TRUE
         IN Abs(BalesOfLot(currentRows, lot) - BalesOfLot(previousRows, lot))
            + DifferenceOver(lots \ { lot }, previousRows, currentRows)

\* round(abs_diff / previous.total_bales * 100, 2) in hundredths, null unless the
\* previous entry has bales
BaleChangeOf(previousRows, currentRows) ==
    IF SumBales(previousRows) > 0
    THEN RoundDiv(DifferenceOver(LotsOf(previousRows) \cup LotsOf(currentRows),
                                 previousRows, currentRows) * 10000,
                  SumBales(previousRows))
    ELSE NullN

\* the answered row is the entry pushed at position p
IsEntry(row, p) ==
    /\ summaryEntries[p].mixing_no = row.mixing_no
    /\ summaryEntries[p].unit = row.unit
    /\ summaryEntries[p].line = row.line
    /\ summaryEntries[p].cotton = row.cotton

\* the entry at position p is the one the answered row names as its predecessor
IsPredecessor(row, p) ==
    /\ row.previous_mixing_no # NullS
    /\ summaryEntries[p].mixing_no = row.previous_mixing_no
    /\ summaryEntries[p].unit = row.unit
    /\ summaryEntries[p].line = row.line

BaleChangesAsClaimed ==
    \A j \in 1..Len(body) : \A c, p \in 1..Len(summaryEntries) :
        (IsEntry(body[j], c) /\ IsPredecessor(body[j], p)) =>
            body[j].bale_change_over_percent = BaleChangeOf(RowsOfEntry(p), RowsOfEntry(c))

\* C19: a daily entry compared with its predecessor reports as bale change-over
\* the sum, over the lots of either entry, of the difference of the lot's bales,
\* per cent of the predecessor's total_bales rounded to two decimals, null when
\* that total is not positive; the bales of a lot are those of all rows of the
\* entry, the rows total_bales is made of
C19_BaleChange ==
    (Succeeded /\ reportType = "daily") => BaleChangesAsClaimed

\* when every row of the store has a lot result the change-over is the claimed one
C19_LotsWithResults ==
    (Succeeded /\ reportType = "daily"
       /\ \A r \in 1..Len(db.mixing_chart) : StoredLots(db.mixing_chart[r]) # {}) =>
        BaleChangesAsClaimed

-----------------------------------------------------------------------------
(* Period-local and cross-period change-over *)

\* the answered weekly or monthly row is the entry pushed at position p, which
\* still holds what the period-local computation yielded
IsPeriodEntry(row, p) ==
    IsEntry(row, p) /\ summaryEntries[p].issue_date_sort_key = row.issue_date_sort_key

\* the entries of the signature group of entry c that come before it
EarlierEntries(c) ==
    { p \in 1..Len(summaryEntries) :
        /\ Signature(summaryEntries[p]) = Signature(summaryEntries[c])
        /\ ComesBefore(summaryEntries[p], summaryEntries[c]) }

\* p is the last of them
IsLastBefore(p, c) ==
    /\ p \in EarlierEntries(c)
    /\ \A q \in EarlierEntries(c) : ~ComesBefore(summaryEntries[p], summaryEntries[q])

\* what the period-local computation yielded is what is answered, and where it
\* yielded a percentage the cross-period one changed neither
LocalValuesKept ==
    \A j \in 1..Len(body) : \A c \in 1..Len(summaryEntries) :
        IsPeriodEntry(body[j], c) =>
            LET local == summaryEntries[c]
            IN /\ local.bale_change_over_percent # NullN =>
                      body[j].bale_change_over_percent = local.bale_change_over_percent
               /\ local.lot_change_over_percent # NullN =>
                      body[j].lot_change_over_percent = local.lot_change_over_percent
               /\ (local.bale_change_over_percent # NullN \/ local.lot_change_over_percent # NullN) =>
                      /\ body[j].bale_change_over_percent = local.bale_change_over_percent
                      /\ body[j].lot_change_over_percent = local.lot_change_over_percent

\* an entry that is not the first of its signature group names its predecessor
PredecessorNamed ==
    \A j \in 1..Len(body) : \A c, p \in 1..Len(summaryEntries) :
        (IsPeriodEntry(body[j], c) /\ IsLastBefore(p, c)) =>
            body[j].previous_mixing_no = summaryEntries[p].mixing_no

\* C20: in a weekly or monthly report a change percentage the period-local
\* computation yielded is the one the entry reports, the cross-period computation
\* never overwriting it and supplying percentages only when the period-local one
\* yielded none; either way an entry that is not the first of its signature group
\* has its predecessor's mixing range as previous_mixing_no
C20_PeriodLocalFirst ==
    (Succeeded /\ reportType \in { "weekly", "monthly" }) => (LocalValuesKept /\ PredecessorNamed)

\* the part about the percentages alone
C20_PercentagesKept ==
    (Succeeded /\ reportType \in { "weekly", "monthly" }) => LocalValuesKept

\* a monthly entry that follows another of its signature group, with period-local
\* percentages of its own
C20_KeptWitness ==
    /\ Succeeded
    /\ reportType = "monthly"
    /\ \E j \in 1..Len(body) : \E c, p \in 1..Len(summaryEntries) :
          /\ IsPeriodEntry(body[j], c)
          /\ IsLastBefore(p, c)
          /\ summaryEntries[c].bale_change_over_percent # NullN
          /\ body[j].previous_mixing_no = summaryEntries[p].mixing_no

-----------------------------------------------------------------------------
(* The period-local change percentages *)

\* the mixing numbers an entry's rows carry, each the number of one sub-entry
SubMixings(rows) == { rows[i].mixing_no : i \in 1..Len(rows) } \ { NullN, 0 }

RowsOfMixing(rows, mn) == SelectSeq(rows, LAMBDA r : r.mixing_no = mn)

\* the date of the issue record stored for the unit, line, mixing number and blend
\* code of a row, null when there is none
JoinedDate(row) ==
    LET hits == { i \in 1..Len(issueData) :
                    /\ issueData[i].unit = row.unit
                    /\ issueData[i].line = row.line
                    /\ issueData[i].mixing_no = row.mixing_no
                    /\ issueData[i].cotton = row.cotton
                    /\ HasDate(issueData[i].issue_date) }
    IN IF hits = {} THEN NullDate
       ELSE issueData[CHOOSE i \in hits : \A j \in hits : i <= j].issue_date

\* the issue timestamp of a sub-entry, null when it has no date
SubTime(rows, mn) ==
    LET date == JoinedDate(RowsOfMixing(rows, mn)[1])
    IN IF HasDate(date) THEN GetTime(date) ELSE NullN

\* sub-entry m comes before sub-entry n: by issue timestamp, nulls last, then by
\* mixing number
SubBefore(rows, m, n) ==
    LET tm == SubTime(rows, m)
        tn == SubTime(rows, n)
    IN IF tm = tn THEN m < n
       ELSE IF tm = NullN THEN FALSE
       ELSE IF tn = NullN THEN TRUE
       ELSE tm < tn

\* the mixing numbers of the sub-entries in that order
SubOrder(rows) ==
    [k \in 1..Cardinality(SubMixings(rows)) |->
        CHOOSE m \in SubMixings(rows) :
            Cardinality({ n \in SubMixings(rows) : SubBefore(rows, n, m) }) = k - 1]

\* the lots of a sub-entry: the lot numbers its rows name
NamedLots(rows) == LotsOf(rows) \ { NullS }

\* what a pair of consecutive sub-entries contributes to the bale mean, as a
\* fraction in per cent: abs_diff / previous total bales x 100. With a total of 0
\* the pair contributes nothing, or under the zero rule 0 when the predecessor
\* has lots and nothing differs, 100 when it has lots and something differs
BalePairOf(previousRows, currentRows, zeroRule) ==
    LET diff == DifferenceOver(NamedLots(previousRows) \cup NamedLots(currentRows),
                               previousRows, currentRows)
    IN IF SumBales(previousRows) > 0 THEN << << diff * 100, SumBales(previousRows) >> >>
       ELSE IF zeroRule /\ NamedLots(previousRows) # {}
       THEN << << IF diff = 0 THEN 0 ELSE 100, 1 >> >>
       ELSE << >>

\* what the pair contributes to the lot mean: (new + removed lots) / previous lot
\* count x 100, a lot being new or removed as in the cross-entry computation,
\* by its bales being positive on one side only
LotPairOf(previousRows, currentRows) ==
    LET lots == NamedLots(previousRows) \cup NamedLots(currentRows)
        changed == { l \in lots :
                       (BalesOfLot(previousRows, l) > 0) # (BalesOfLot(currentRows, l) > 0) }
    IN IF NamedLots(previousRows) # {}
       THEN << << Cardinality(changed) * 100, Cardinality(NamedLots(previousRows)) >> >>
       ELSE << >>

RECURSIVE FractionSum(_)
FractionSum(fractions) ==
    IF fractions = << >> THEN << 0, 1 >>
    ELSE LET rest == FractionSum(Tail(fractions))
             numerator == Head(fractions)[1] * rest[2] + rest[1] * Head(fractions)[2]
             denominator == Head(fractions)[2] * rest[2]
             divisor == Gcd(numerator, denominator)
         IN << numerator \div divisor, denominator \div divisor >>

\* the arithmetic mean of the contributions in hundredths of a per cent, null
\* when no pair contributes
MeanOf(fractions) ==
    IF fractions = << >> THEN NullN
    ELSE RoundDiv(100 * FractionSum(fractions)[1], FractionSum(fractions)[2] * Len(fractions))

BaleMeanOf(rows, zeroRule) ==
    LET order == SubOrder(rows)
    IN MeanOf(Flatten([k \in 1..(Len(order) - 1) |->
                  BalePairOf(RowsOfMixing(rows, order[k]), RowsOfMixing(rows, order[k + 1]),
                             zeroRule)]))

LotMeanOf(rows) ==
    LET order == SubOrder(rows)
    IN MeanOf(Flatten([k \in 1..(Len(order) - 1) |->
                  LotPairOf(RowsOfMixing(rows, order[k]), RowsOfMixing(rows, order[k + 1]))]))

LocalChangesAre(zeroRule) ==
    \A c \in 1..Len(summaryEntries) :
        /\ summaryEntries[c].bale_change_over_percent = BaleMeanOf(RowsOfEntry(c), zeroRule)
        /\ summaryEntries[c].lot_change_over_percent = LotMeanOf(RowsOfEntry(c))

C21_WitnessUndated ==
    /\ Succeeded
    /\ reportType \in { "weekly", "monthly" }
    /\ \E c \in 1..Len(summaryEntries) :
          LET rows == RowsOfEntry(c)
              order == SubOrder(rows)
          IN /\ Len(order) >= 2
             /\ order[Len(order)] = 1
             /\ SubTime(rows, 1) = NullN
             /\ summaryEntries[c].bale_change_over_percent # NullN

-----------------------------------------------------------------------------
(* The issue date of a daily entry *)

\* the dates joined to the rows of an entry, in the order of the rows
JoinedDates(rows) ==
    SelectSeq([i \in 1..Len(rows) |-> JoinedDate(rows[i])], HasDate)

\* the dates among them that parse
ValidDates(rows) == SelectSeq(JoinedDates(rows), LAMBDA date : GetTime(date) # NaN)

\* the earliest of a non-empty sequence of dates that parse, the first in the
\* sequence among equal ones
EarliestOf(dates) ==
    dates[CHOOSE i \in 1..Len(dates) :
            /\ \A j \in 1..Len(dates) : GetTime(dates[i]) <= GetTime(dates[j])
            /\ \A j \in 1..(i - 1) : GetTime(dates[j]) # GetTime(dates[i])]

EarliestValidChosen ==
    \A c \in 1..Len(summaryEntries) :
        ValidDates(RowsOfEntry(c)) # << >> =>
            summaryEntries[c].issue_date = EarliestOf(ValidDates(RowsOfEntry(c)))

\* C22: the issue_date of a daily entry is the earliest of the dates joined to
\* its rows that parse, the first row in original order winning ties; a date that
\* does not parse is never chosen while one that parses exists
C22_EarliestValidDate ==
    (Succeeded /\ reportType = "daily") => EarliestValidChosen

\* when every joined date parses the entry carries the earliest of them
C22_DatesThatParse ==
    (Succeeded /\ reportType = "daily"
       /\ \A c \in 1..Len(summaryEntries) :
             ValidDates(RowsOfEntry(c)) = JoinedDates(RowsOfEntry(c))) =>
        EarliestValidChosen

\* a daily entry whose rows are joined to two different dates that parse, the
\* later one first
C22_ParsingWitness ==
    /\ Succeeded
    /\ reportType = "daily"
    /\ \E c \in 1..Len(summaryEntries) :
          LET dates == JoinedDates(RowsOfEntry(c))
          IN /\ Len(dates) >= 2
             /\ ValidDates(RowsOfEntry(c)) = dates
             /\ GetTime(dates[1]) > GetTime(dates[2])
             /\ summaryEntries[c].issue_date = dates[2]

-----------------------------------------------------------------------------
(* The join of mixing rows to issue records *)

\* an issue record with a date that parses is stored for the row's mixing number
MixingIssued(row) ==
    \E i \in 1..Len(issueData) :
        issueData[i].mixing_no = row.mixing_no /\ isValidIsoDate(issueData[i].issue_date)

\* the same, the record also being of the row's unit, line and blend code
KeyIssued(row) == isValidIsoDate(JoinedDate(row))

\* the row is among the rows of an entry that carries an issue date
DatedInSummary(row) ==
    \E c \in 1..Len(summaryEntries) :
        /\ row \in Range(RowsOfEntry(c))
        /\ HasDate(summaryEntries[c].issue_date)

\* C23: a mixing row is joined to an issue record by unit, line, mixing number
\* and blend code and, when no record matches, by mixing number alone: in the
\* summary every row whose mixing number has an issue record with a date
\* receives an issue date, also when its unit, line or blend code differ from the
\* record's
C23_FallbackJoin ==
    Succeeded => \A r \in 1..Len(mixingData) :
                    MixingIssued(mixingData[r]) => DatedInSummary(mixingData[r])

\* a row whose unit, line, mixing number and blend code are those of an issue
\* record with a date receives an issue date
C23_CompositeJoin ==
    Succeeded => \A r \in 1..Len(mixingData) :
                    KeyIssued(mixingData[r]) => DatedInSummary(mixingData[r])

\* a daily entry all of whose rows are of a unit no issue record is stored for
C23_UnkeyedWitness ==
    /\ Succeeded
    /\ reportType = "daily"
    /\ \E c \in 1..Len(summaryEntries) :
          /\ \A row \in Range(RowsOfEntry(c)) : MixingIssued(row) /\ ~KeyIssued(row)
          /\ ~HasDate(summaryEntries[c].issue_date)

-----------------------------------------------------------------------------
(* Reads and aggregation *)

\* C24: every read of the record source, the one of the variety weights
\* included, is completed before the aggregation of the first group starts: no
\* step taken while the loop over the groups runs reads the record source
C24_ReadsBeforeAggregation ==
    [][pc = "aggregate" => fetchLog' = fetchLog]_vars

\* the reads of issue records, mixing rows and lot results are completed before
\* the loop starts: the only read a step of the loop makes is one of mixing_code
C24_OnlyWeightsReadLate ==
    [][pc = "aggregate" =>
         (fetchLog' = fetchLog \/ fetchLog' = Append(fetchLog, "mixing_code"))]_vars

\* the weights were read for a second group after the first entry was aggregated
C24_LateReadWitness ==
    /\ Succeeded
    /\ Len(summaryEntries) >= 2
    /\ Len(fetchLog) >= 5
    /\ fetchLog[Len(fetchLog)] = "mixing_code"
    /\ fetchLog[Len(fetchLog) - 1] = "mixing_code"

-----------------------------------------------------------------------------
(* Continuity within one signature group *)

\* a text free of the delimiter and different from the placeholders
PlainText(x) ==
    /\ x # NoUnitText
    /\ x # << "_", "_", "N", "O", "_", "L", "I", "N", "E", "_", "_" >>
    /\ \A i \in 1..Len(x) : << x[i] >> # Bar

\* entries p and c have the same unit, the same line and the same blend group key
SameGroupFields(p, c) ==
    /\ summaryEntries[p].unit = summaryEntries[c].unit
    /\ summaryEntries[p].line = summaryEntries[c].line
    /\ EntryGroupKey(summaryEntries[p]) = EntryGroupKey(summaryEntries[c])

\* an answered row that names a predecessor names the mixing range of another
\* entry of its own unit, line and blend group key
PredecessorOfOwnGroup ==
    \A j \in 1..Len(body) : \A c \in 1..Len(summaryEntries) :
        (IsEntry(body[j], c) /\ body[j].previous_mixing_no # NullS) =>
            \E p \in 1..Len(summaryEntries) :
                /\ p # c
                /\ SameGroupFields(p, c)
                /\ summaryEntries[p].mixing_no = body[j].previous_mixing_no

\* C25: continuity never crosses signature groups: an entry whose change
\* percentages or previous_mixing_no come from a predecessor has that
\* predecessor's unit, line and blend group key, whatever the field values,
\* texts with the key delimiter or equal to a placeholder included
C25_SameSignatureGroup ==
    Succeeded => PredecessorOfOwnGroup

\* for units and lines that are null or free of delimiter and placeholder the
\* predecessor is of the entry's own group
C25_PlainFields ==
    (Succeeded /\ \A c \in 1..Len(summaryEntries) :
                     /\ PlainText(summaryEntries[c].unit)
                     /\ PlainText(summaryEntries[c].line)) =>
        PredecessorOfOwnGroup

\* an answered row that names a predecessor, all units and lines plain
C25_PlainWitness ==
    /\ Succeeded
    /\ \A c \in 1..Len(summaryEntries) :
          PlainText(summaryEntries[c].unit) /\ PlainText(summaryEntries[c].line)
    /\ \E j \in 1..Len(body) : body[j].previous_mixing_no # NullS

-----------------------------------------------------------------------------
(* The mixing range of an entry *)

SetMin(S) == CHOOSE x \in S : \A y \in S : x <= y
SetMax(S) == CHOOSE x \in S : \A y \in S : y <= x

\* "<min>-<max>" over a non-empty set of mixing numbers, the single number when
\* the two agree
RangeOver(numbers) ==
    IF SetMin(numbers) = SetMax(numbers) THEN NumStr(SetMin(numbers))
    ELSE NumStr(SetMin(numbers)) \o << "-" >> \o NumStr(SetMax(numbers))

RangeIsOfRows ==
    \A c \in 1..Len(summaryEntries) :
        summaryEntries[c].mixing_no = RangeOver(SubMixings(RowsOfEntry(c)))

\* C26: the mixing range of an entry is "<min>-<max>" over the distinct mixing
\* numbers of the mixing rows that contribute to the entry, the single number
\* when min = max; a weekly or monthly range never includes a mixing number that
\* contributes no row to the entry's totals
C26_MixingRange ==
    Succeeded => RangeIsOfRows

\* in a daily report the range is that of the entry's rows
C26_DailyRange ==
    (Succeeded /\ reportType = "daily") => RangeIsOfRows

\* a daily report with an entry
C26_DailyWitness ==
    /\ Succeeded
    /\ reportType = "daily"
    /\ Len(summaryEntries) >= 2
    /\ body # << >>

-----------------------------------------------------------------------------
(* The bales of a daily report *)

\* every fetched row is among the rows of an entry, and the entries have as many
\* rows as were fetched: each row is in exactly one entry
RowsPartitioned ==
    /\ \A r \in 1..Len(mixingData) :
          \E c \in 1..Len(summaryEntries) : mixingData[r] \in Range(RowsOfEntry(c))
    /\ SeqSum([c \in 1..Len(summaryEntries) |-> Len(RowsOfEntry(c))]) = Len(mixingData)

\* the answered totals are numbers and add up to the bales of the fetched rows
BalesAddUp ==
    /\ \A j \in 1..Len(body) : IsNum(body[j].total_bales)
    /\ SeqSum([j \in 1..Len(body) |-> body[j].total_bales]) = SumBales(mixingData)

\* C27: in a daily report without a mixing filter every fetched mixing row
\* contributes to exactly one entry, and the total_bales of the answered entries
\* add up to the issue_bale of the fetched rows
C27_BalesConserved ==
    (Succeeded /\ reportType = "daily" /\ flt.mixing = << >>) =>
        (RowsPartitioned /\ BalesAddUp)

\* the same when no fetched row has a bale count that is a non-numeric text
C27_NumericBales ==
    (Succeeded /\ reportType = "daily" /\ flt.mixing = << >>
       /\ \A r \in 1..Len(mixingData) : mixingData[r].issue_bale # NaN) =>
        (RowsPartitioned /\ BalesAddUp)

\* each fetched row is in exactly one entry, whatever its bale count
C27_Partition ==
    (Succeeded /\ reportType = "daily") => RowsPartitioned

\* a daily report of several entries, one of them of several rows
C27_NumericWitness ==
    /\ Succeeded
    /\ reportType = "daily"
    /\ flt.mixing = << >>
    /\ Len(body) >= 2
    /\ \E c \in 1..Len(summaryEntries) : Len(RowsOfEntry(c)) >= 2
    /\ SumBales(mixingData) > 0

-----------------------------------------------------------------------------
(* The bales of a weekly or monthly report *)

\* the entries a fetched row is among the rows of
EntriesOfRow(r) ==
    { c \in 1..Len(summaryEntries) : mixingData[r] \in Range(RowsOfEntry(c)) }

\* the issue records of the row's unit, line, blend code and mixing number fall
\* in one period
IssuedInOnePeriod(r) ==
    \A i, j \in 1..Len(issueData) :
        (/\ issueData[i].mixing_no = mixingData[r].mixing_no
         /\ issueData[j].mixing_no = mixingData[r].mixing_no
         /\ issueData[i].cotton = issueData[j].cotton
         /\ issueData[i].unit = issueData[j].unit
         /\ issueData[i].line = issueData[j].line) =>
            buildPeriodDescriptor(issueData[i].issue_date, reportType).label
              = buildPeriodDescriptor(issueData[j].issue_date, reportType).label

\* C28: in a weekly or monthly report every mixing row contributes its bales to
\* at most one entry, also when its unit, line, blend code and mixing number have
\* issue records in two different periods
C28_RowInOneEntry ==
    (Succeeded /\ reportType \in { "weekly", "monthly" }) =>
        \A r \in 1..Len(mixingData) : Cardinality(EntriesOfRow(r)) <= 1

\* a row whose issue records fall in one period is in at most one entry
C28_OnePeriod ==
    (Succeeded /\ reportType \in { "weekly", "monthly" }) =>
        \A r \in 1..Len(mixingData) :
            IssuedInOnePeriod(r) => Cardinality(EntriesOfRow(r)) <= 1

\* a row with two issue records of one period, in one entry
C28_OnePeriodWitness ==
    /\ Succeeded
    /\ reportType \in { "weekly", "monthly" }
    /\ Len(issueData) >= 2
    /\ \E r \in 1..Len(mixingData) : IssuedInOnePeriod(r) /\ Cardinality(EntriesOfRow(r)) = 1

-----------------------------------------------------------------------------
(* The period of a weekly or monthly entry *)

\* a period label and a period sort key name the same year and month and, for a
\* week label, the same week of the month
SamePeriod(label, key) ==
    /\ HasDate(label) /\ HasDate(key)
    /\ label.y = key.y
    /\ label.m = key.m
    /\ label.k = "week" => label.d = key.d

LabelsMatchKeys ==
    \A j \in 1..Len(body) : SamePeriod(body[j].issue_date, body[j].issue_date_sort_key)

NoEntryTwice ==
    \A j, k \in 1..Len(body) :
        (/\ body[j].issue_date = body[k].issue_date
         /\ body[j].unit = body[k].unit
         /\ body[j].line = body[k].line
         /\ body[j].cotton = body[k].cotton) => j = k

\* C29: in a weekly or monthly report the period label and the period sort key
\* of every answered entry denote the same period, and no two answered entries
\* have the same period label, unit, line and blend code
C29_PeriodIdentity ==
    (Succeeded /\ reportType \in { "weekly", "monthly" }) => (LabelsMatchKeys /\ NoEntryTwice)

\* in a weekly report both hold
C29_Weekly ==
    (Succeeded /\ reportType = "weekly") => (LabelsMatchKeys /\ NoEntryTwice)

\* a weekly report of a mixing issued in two weeks, answered with two entries
C29_WeeklyWitness ==
    /\ Succeeded
    /\ reportType = "weekly"
    /\ Len(body) >= 2
    /\ \E i, j \in 1..Len(issueData) :
          /\ issueData[i].mixing_no = issueData[j].mixing_no
          /\ issueData[i].issue_date # issueData[j].issue_date

-----------------------------------------------------------------------------
(* Replacing issue records *)

\* the stored issue records of the mixing number and blend code of an entry
StoredFor(table, entry) ==
    SelectSeq(table, LAMBDA r : r.mixing_no = entry.mixing_no /\ r.cotton = entry.cotton)

\* the stored issue records of no entry of the payload
StoredBeside(table, payload) ==
    SelectSeq(table, LAMBDA r :
        \A i \in 1..Len(payload) :
            ~(r.mixing_no = payload[i].mixing_no /\ r.cotton = payload[i].cotton))

\* C30: replacing issue records is all-or-nothing per request: when a delete or
\* the insert fails, the stored issue records of every mixing number and blend
\* code of the payload are those stored before the request, never deleted
\* without their replacements
C30_AllOrNothing ==
    (post.pc = "done" /\ post.status = 500) =>
        \A i \in 1..Len(post.payload) :
            StoredFor(db.mixing_issue, post.payload[i])
              = StoredFor(ReplaceStore.mixing_issue, post.payload[i])

\* a request answered with success has replaced the records of its payload, and
\* no request touches the records of other mixing numbers and blend codes
C30_ReplacedOnSuccess ==
    /\ (post.pc = "done" /\ post.status = 200) =>
           \A i \in 1..Len(post.payload) :
               StoredFor(db.mixing_issue, post.payload[i])
                 = StoredFor(post.payload, post.payload[i])
    /\ post.pc \in { "deleting", "inserting", "done" } =>
           StoredBeside(db.mixing_issue, post.payload)
             = StoredBeside(ReplaceStore.mixing_issue, post.payload)

\* a request of two kept entries answered with success
C30_SuccessWitness ==
    /\ post.pc = "done"
    /\ post.status = 200
    /\ Len(post.payload) = 2
    /\ Len(post.entries) = 2
    /\ db.mixing_issue # ReplaceStore.mixing_issue

====
